---------------------------- MODULE Spec2Model ----------------------------
(***************************************************************************)
(* Model of the assembler generator: assembler/asm_defs.py (the loader of  *)
(* instruction definitions) and assembler/gen_asm.py (main and the mode    *)
(* emitters).                                                              *)
(*                                                                         *)
(* Representation.  A Python string is a sequence of tokens: the mnemonic  *)
(* 'ShlbByCl' is <<"Shlb", "ByCl">>, the operand class 'Mem8/GeneralReg8'  *)
(* is <<"Mem8", "/", "GeneralReg8">>, the class 'Imm8' is <<"Imm8">>, the  *)
(* opcode '0F' is <<"0", "F">>.  Concatenation is \o, s.endswith(t) looks  *)
(* at the last tokens, s.split('/') cuts at the "/" tokens.  A Python dict *)
(* is a TLA+ record whose domain is the set of keys present.  A function   *)
(* that may raise returns Raise or Ok(value).                              *)
(***************************************************************************)
EXTENDS Integers, Sequences, FiniteSets, TLC

VARIABLES
  argv,        \* [mode, files]: the mode selector and the input files, paired with outputs
  pc,          \* position of main()
  pair,        \* index of the (output, input) file pair being processed
  insns,       \* the list load_asm_defs is working on
  by_operands, \* what _expand_insns_by_operands returned for the current file
  by_encodings,\* what _expand_insn_by_encodings returned for the current file
  loaded_defs, \* what _load_asm_defs returned for the current file
  idx,         \* index of the next record of loaded_defs to emit
  template_names, \* the set of template descriptions already emitted
  fs,          \* the output files: per output file, [exists, opened, text]
  instruction_names, \* '--using': the set of mnemonics collected so far
  run,         \* 1 for the first invocation of the program, 2 for the second
  prev_fs,     \* the output files as the previous invocation left them
  lir_arch,    \* gen_lir.py, load_all_lir_defs: arch, the architecture of the files read so far
  allowlist_found, \* gen_lir.py, load_all_lir_defs: the allowlisted names found so far
  intrs,       \* gen_intrinsics.py, _open_asm_def_files: the intrinsics by name
  arch_intrs   \* gen_intrinsics.py, _open_asm_def_files: the bindings not yet processed

\* the variables of backend/gen_lir.py and intrinsics/gen_intrinsics.py
lir_vars == <<lir_arch, allowlist_found, intrs, arch_intrs>>

vars == <<argv, pc, pair, insns, by_operands, by_encodings, loaded_defs, idx,
          template_names, fs, instruction_names, run, prev_fs, lir_vars>>

---------------------------------------------------------------------------
(* Results of functions that may raise.                                    *)
Raise == [ok |-> FALSE]
Ok(v) == [ok |-> TRUE, val |-> v]

(* dict helpers *)
Has(d, k) == k \in DOMAIN d
\* d[k] = v: the key is added or overwritten
Put(d, k, v) == [x \in (DOMAIN d) \cup {k} |-> IF x = k THEN v ELSE d[x]]
\* d.update(e)
Update(d, e) == [x \in (DOMAIN d) \cup (DOMAIN e) |-> IF x \in DOMAIN e THEN e[x] ELSE d[x]]

(* string helpers *)
endswith(s, suffix) ==
  /\ Len(s) >= Len(suffix)
  /\ SubSeq(s, Len(s) - Len(suffix) + 1, Len(s)) = suffix
\* s[:-n], n counted in tokens
DropLast(s, n) == SubSeq(s, 1, Len(s) - n)
Contains(s, tok) == \E i \in 1..Len(s) : s[i] = tok

RECURSIVE split(_, _)
\* str.split(sep): the pieces between the separators, empty pieces kept
split(s, sep) ==
  IF ~Contains(s, sep) THEN <<s>>
  ELSE LET i == CHOOSE k \in 1..Len(s) : s[k] = sep /\ \A j \in 1..(k - 1) : s[j] # sep
       IN <<SubSeq(s, 1, i - 1)>> \o split(SubSeq(s, i + 1, Len(s)), sep)

\* The tokens mnemonics are made of, in the order of Python's string comparison
\* (no token is a prefix of another but "Imm" of "Imm8", and no two compared
\* strings have the one where the other has the other, so comparing token by
\* token is comparing the strings).
AsmTokens == <<"<", ">", "Accumulator", "Add", "ByCl", "ByOne", "Float32", "Float64",
               "Imm", "Imm8", "Insns", "Int3", "Mem", "Mfence", "Reg", "Shl", "Test", "UD2",
               "XReg">>
TokRank(tok) == CHOOSE i \in 1..Len(AsmTokens) : AsmTokens[i] = tok

RECURSIVE StrLess(_, _)
\* a < b for Python strings
StrLess(a, b) ==
  IF b = <<>> THEN FALSE
  ELSE IF a = <<>> THEN TRUE
  ELSE IF Head(a) = Head(b) THEN StrLess(Tail(a), Tail(b))
  ELSE TokRank(Head(a)) < TokRank(Head(b))

\* str.upper() of one token
UpperTok(tok) ==
  CASE tok = "Accumulator" -> "ACCUMULATOR"
    [] tok = "Add" -> "ADD"
    [] tok = "ByCl" -> "BYCL"
    [] tok = "ByOne" -> "BYONE"
    [] tok = "Float32" -> "FLOAT32"
    [] tok = "Float64" -> "FLOAT64"
    [] tok = "Imm8" -> "IMM8"
    [] tok = "Int3" -> "INT3"
    [] tok = "Mfence" -> "MFENCE"
    [] tok = "Shl" -> "SHL"
    [] tok = "Test" -> "TEST"
    [] OTHER -> tok
upper(s) == [i \in DOMAIN s |-> UpperTok(s[i])]

---------------------------------------------------------------------------
(* asm_defs.py: the operand classes                                        *)
OneOf(arg_type, names) == Len(arg_type) = 1 /\ arg_type[1] \in names

is_imm(arg_type) == OneOf(arg_type, {"Imm2", "Imm8", "Imm16", "Imm32", "Imm64"})
is_disp(arg_type) == arg_type = <<"Disp">>
is_mem_op(arg_type) ==
  OneOf(arg_type, {"Mem8", "Mem16", "Mem32", "Mem64", "Mem128",
                   "VecMem32", "VecMem64", "VecMem128"})
is_cond(arg_type) == arg_type = <<"Cond">>
is_label(arg_type) == arg_type = <<"Label">>
is_greg(arg_type) ==
  OneOf(arg_type, {"GeneralReg", "GeneralReg8", "GeneralReg16",
                   "GeneralReg32", "GeneralReg64"})
is_xreg(arg_type) ==
  OneOf(arg_type, {"XmmReg", "VecReg64", "VecReg128", "FpReg32", "FpReg64"})
is_implicit_reg(arg_type) ==
  OneOf(arg_type, {"RAX", "EAX", "AX", "AL",
                   "RCX", "ECX", "CL",
                   "RDX", "EDX", "DX",
                   "RBX", "EBX", "BX",
                   "RDI", "RSI", "RSP", "FLAGS"})

\* sum(1 for elem in iterable if elem) == 1, over a sequence of booleans
exactly_one_of(iterable) == Cardinality({i \in DOMAIN iterable : iterable[i]}) = 1

RECURSIVE macro_name_from_elided(_, _, _, _)
\* a naming in which no fixed register is reflected in the name
macro_name_from_elided(macro_name, args, i, addr_mode) ==
  IF i > Len(args) THEN Ok(macro_name)
  ELSE LET clazz == args[i].class IN
    IF is_implicit_reg(clazz) \/ is_cond(clazz) \/ is_label(clazz)
      THEN macro_name_from_elided(macro_name, args, i + 1, addr_mode)
    ELSE IF is_greg(clazz)
      THEN macro_name_from_elided(macro_name \o <<"Reg">>, args, i + 1, addr_mode)
    ELSE IF is_xreg(clazz)
      THEN macro_name_from_elided(macro_name \o <<"XReg">>, args, i + 1, addr_mode)
    ELSE IF is_imm(clazz)
      THEN macro_name_from_elided(macro_name \o <<"Imm">>, args, i + 1, addr_mode)
    ELSE IF is_mem_op(clazz)
      THEN IF addr_mode # <<>>
             THEN macro_name_from_elided(macro_name \o <<"Mem">> \o addr_mode, args, i + 1,
                                         addr_mode)
             ELSE macro_name_from_elided(macro_name \o <<"Op">>, args, i + 1, addr_mode)
    ELSE Raise

RECURSIVE macro_name_from(_, _, _, _)
\* the loop of get_mem_macro_name from argument i on; addr_mode is <<>> for None
macro_name_from(macro_name, args, i, addr_mode) ==
  IF i > Len(args) THEN Ok(macro_name)
  ELSE LET clazz == args[i].class IN
    IF clazz = <<"FLAGS">> \/ is_cond(clazz) \/ is_label(clazz)
      THEN macro_name_from(macro_name, args, i + 1, addr_mode)
    ELSE IF is_greg(clazz) \/ is_implicit_reg(clazz)
      THEN macro_name_from(macro_name \o <<"Reg">>, args, i + 1, addr_mode)
    ELSE IF is_xreg(clazz)
      THEN macro_name_from(macro_name \o <<"XReg">>, args, i + 1, addr_mode)
    ELSE IF is_imm(clazz)
      THEN macro_name_from(macro_name \o <<"Imm">>, args, i + 1, addr_mode)
    ELSE IF is_mem_op(clazz)
      THEN IF addr_mode # <<>>
             THEN macro_name_from(macro_name \o <<"Mem">> \o addr_mode, args, i + 1, addr_mode)
             ELSE macro_name_from(macro_name \o <<"Op">>, args, i + 1, addr_mode)
    ELSE Raise

get_mem_macro_name(insn, addr_mode) ==
  LET asm == insn.asm
      macro_name == IF endswith(asm, <<"ByCl">>) THEN DropLast(asm, 1) ELSE asm
  IN macro_name_from(macro_name, insn.args, 1, addr_mode)

\* a naming that takes the stem for the name when no name can be derived
_expand_name_lenient(insn, stem, encoding) ==
  LET with_asm == Put(insn, "asm", stem)
      name == get_mem_macro_name(with_asm, <<>>)
  IN Ok(Update(Put(Put(with_asm, "name", IF name.ok THEN name.val ELSE stem),
                   "mnemo", upper(stem)), encoding))

\* _expand_name(insn, stem, encoding): Raise when get_mem_macro_name raises
_expand_name(insn, stem, encoding) ==
  LET with_asm == Put(insn, "asm", stem)
      name == get_mem_macro_name(with_asm, <<>>)
  IN IF ~name.ok THEN Raise
     ELSE Ok(Update(Put(Put(with_asm, "name", name.val), "mnemo", upper(stem)), encoding))

RECURSIVE Collect(_)
\* a list comprehension over calls that may raise: the values, or Raise
Collect(results) ==
  IF results = <<>> THEN Ok(<<>>)
  ELSE IF ~Head(results).ok THEN Raise
  ELSE LET rest == Collect(Tail(results))
       IN IF rest.ok THEN Ok(<<Head(results).val>> \o rest.val) ELSE Raise

\* insn.get(k) is truthy, for a key that holds a list or a dict
Truthy(insn, k) == Has(insn, k) /\ insn[k] # <<>>

\* the loop body without its assertions on the fields of the record
expand_by_encodings_one_unasserted(insn) ==
  IF Truthy(insn, "encodings") THEN
    Collect([i \in DOMAIN insn.encodings |->
               _expand_name(insn, insn.encodings[i].stem, insn.encodings[i].encoding)])
  ELSE IF Truthy(insn, "stems") THEN
    Collect([i \in DOMAIN insn.stems |-> _expand_name(insn, insn.stems[i], <<>>)])
  ELSE Ok(<<insn>>)

\* the body of the loop of _expand_insn_by_encodings: the records insn expands
\* to, or Raise.  'encodings' is the list of the (stem, encoding) items of the
\* JSON object, in file order.
expand_by_encodings_one(insn) ==
  IF Truthy(insn, "encodings") THEN
    IF \E f \in {"stems", "name", "asm", "mnemo"} : Has(insn, f) THEN Raise
    ELSE IF \E i \in DOMAIN insn.encodings : ~Has(insn.encodings[i].encoding, "opcodes")
      THEN Raise
    ELSE Collect([i \in DOMAIN insn.encodings |->
                    _expand_name(insn, insn.encodings[i].stem, insn.encodings[i].encoding)])
  ELSE IF Truthy(insn, "stems") THEN
    IF \E f \in {"encoding", "name", "asm", "mnemo"} : Has(insn, f) THEN Raise
    ELSE Collect([i \in DOMAIN insn.stems |->
                    _expand_name(insn, insn.stems[i], <<>>)])
  ELSE
    IF \E f \in {"name", "asm", "mnemo"} : ~Has(insn, f) THEN Raise
    ELSE Ok(<<insn>>)

RECURSIVE Flatten(_)
Flatten(lists) == IF lists = <<>> THEN <<>> ELSE Head(lists) \o Flatten(Tail(lists))

_expand_insn_by_encodings(in_insns) ==
  LET each == Collect([i \in DOMAIN in_insns |-> expand_by_encodings_one(in_insns[i])])
  IN IF each.ok THEN Ok(Flatten(each.val)) ELSE Raise

RECURSIVE expand_args_from_aliased(_, _, _, _)
\* an expansion that appends the record itself instead of a deep copy of it:
\* every entry is the one object, which holds the last alternative
expand_args_from_aliased(insn, i, split_done, expanded) ==
  IF i > Len(insn.args) THEN Ok(IF split_done THEN expanded ELSE <<insn>>)
  ELSE IF Contains(insn.args[i].class, "/") THEN
    IF split_done THEN Raise
    ELSE expand_args_from_aliased(
           [insn EXCEPT !.args[i].class = split(@, "/")[Len(split(@, "/"))]],
           i + 1, TRUE,
           expanded \o [k \in 1..Len(split(insn.args[i].class, "/")) |->
                          [insn EXCEPT !.args[i].class = split(@, "/")[Len(split(@, "/"))]]])
  ELSE expand_args_from_aliased(insn, i + 1, split_done, expanded)

RECURSIVE expand_args_from_unchecked(_, _, _, _)
\* an expansion without the assertion on split_done
expand_args_from_unchecked(insn, i, split_done, expanded) ==
  IF i > Len(insn.args) THEN Ok(IF split_done THEN expanded ELSE <<insn>>)
  ELSE IF Contains(insn.args[i].class, "/") THEN
    expand_args_from_unchecked(
      [insn EXCEPT !.args[i].class = split(@, "/")[Len(split(@, "/"))]],
      i + 1, TRUE,
      expanded \o [k \in 1..Len(split(insn.args[i].class, "/")) |->
                     [insn EXCEPT !.args[i].class = split(@, "/")[k]]])
  ELSE expand_args_from_unchecked(insn, i + 1, split_done, expanded)

RECURSIVE expand_args_from(_, _, _, _)
\* the inner loop of _expand_insns_by_operands from argument i on.  insn is the
\* record as mutated so far (arg['class'] = subclass), expanded the copies made.
expand_args_from(insn, i, split_done, expanded) ==
  IF i > Len(insn.args) THEN Ok(IF split_done THEN expanded ELSE <<insn>>)
  ELSE IF Contains(insn.args[i].class, "/") THEN
    IF split_done THEN Raise
    ELSE LET operand_classes == split(insn.args[i].class, "/")
             copies == [k \in 1..Len(operand_classes) |->
                          [insn EXCEPT !.args[i].class = operand_classes[k]]]
             mutated == [insn EXCEPT !.args[i].class = operand_classes[Len(operand_classes)]]
         IN expand_args_from(mutated, i + 1, TRUE, expanded \o copies)
  ELSE expand_args_from(insn, i + 1, split_done, expanded)

expand_by_operands_one(insn) == expand_args_from(insn, 1, FALSE, <<>>)

_expand_insns_by_operands(in_insns) ==
  LET each == Collect([i \in DOMAIN in_insns |-> expand_by_operands_one(in_insns[i])])
  IN IF each.ok THEN Ok(Flatten(each.val)) ELSE Raise

RECURSIVE InsertByAsmBeforeEqual(_, _)
\* an insertion that puts a record before the records of its mnemonic
InsertByAsmBeforeEqual(s, x) ==
  IF s = <<>> THEN <<x>>
  ELSE IF ~StrLess(Head(s).asm, x.asm) THEN <<x>> \o s
  ELSE <<Head(s)>> \o InsertByAsmBeforeEqual(Tail(s), x)

RECURSIVE InsertByAsm(_, _)
\* x goes after every element whose key is not greater: the sort is stable
InsertByAsm(s, x) ==
  IF s = <<>> THEN <<x>>
  ELSE IF StrLess(x.asm, Head(s).asm) THEN <<x>> \o s
  ELSE <<Head(s)>> \o InsertByAsm(Tail(s), x)

RECURSIVE sorted_by_asm(_)
\* sorted(insns, key=lambda i: i.get('asm'))
sorted_by_asm(s) ==
  IF s = <<>> THEN <<>>
  ELSE InsertByAsm(sorted_by_asm(SubSeq(s, 1, Len(s) - 1)), s[Len(s)])

---------------------------------------------------------------------------
(* gen_asm.py: loading                                                     *)
_is_for_asm(insn) == ~(Has(insn, "skip_asm") /\ insn.skip_asm)

\* the list comprehension of _load_asm_defs
filter_for_asm(s) == SelectSeq(s, _is_for_asm)

---------------------------------------------------------------------------
(* gen_asm.py: operand classification                                      *)

\* Class predicates gen_asm.py calls in asm_defs that the asm_defs.py at hand
\* does not define.
is_x87reg(arg_type) == arg_type = <<"RegX87">>
is_freg(arg_type) == arg_type = <<"FpReg">>
is_yreg(arg_type) == OneOf(arg_type, {"YmmReg", "VecReg256"})
is_csr(arg_type) == arg_type = <<"CsrReg">>
is_rm(arg_type) == arg_type = <<"Rm">>
\* asm_defs._get_cxx_name(insn.get('type', '')): the C++ spelling of the
\* instruction type; the empty string for a record without 'type'
_get_cxx_name(insn_type) == insn_type

\* _imm_types[cls], for the classes is_imm accepts
_imm_types(cls) ==
  CASE cls = <<"Imm2">> -> <<"int8_t">>
    [] cls = <<"Imm8">> -> <<"int8_t">>
    [] cls = <<"Imm16">> -> <<"int16_t">>
    [] cls = <<"Imm32">> -> <<"int32_t">>
    [] cls = <<"Imm64">> -> <<"int64_t">>

\* insn.get('type', None): <<>> stands for None
insn_type_of(insn) == IF Has(insn, "type") THEN insn.type ELSE <<>>

_get_arg_type_name(arg, insn_type) ==
  LET cls == arg.class IN
  IF is_x87reg(cls) THEN Ok(<<"X87Register">>)
  ELSE IF is_greg(cls) THEN Ok(<<"Register">>)
  ELSE IF is_freg(cls) THEN Ok(<<"FpRegister">>)
  ELSE IF is_xreg(cls) THEN Ok(<<"XMMRegister">>)
  ELSE IF is_yreg(cls) THEN Ok(<<"YMMRegister">>)
  ELSE IF is_imm(cls) THEN Ok(_imm_types(cls))
  ELSE IF is_disp(cls) THEN Ok(<<"int32_t">>)
  ELSE IF is_label(cls) THEN Ok(<<"const Label&">>)
  ELSE IF is_cond(cls) THEN Ok(<<"Condition">>)
  ELSE IF is_csr(cls) THEN Ok(<<"Csr">>)
  ELSE IF is_rm(cls) THEN Ok(<<"Rounding">>)
  ELSE IF is_mem_op(cls) THEN
    IF insn_type # <<>> /\ endswith(insn_type, <<"-type">>)
      THEN Ok(<<"const Operand<Register", ",">> \o DropLast(insn_type, 1) \o <<"Immediate>&">>)
      ELSE Ok(<<"const Operand&">>)
  ELSE Raise

RECURSIVE immediate_type_from(_, _, _)
\* the loop of _get_immediate_type from argument i on; <<>> stands for None
immediate_type_from(args, i, imm_type) ==
  IF i > Len(args) THEN Ok(imm_type)
  ELSE IF is_imm(args[i].class) THEN
    IF imm_type # <<>> THEN Raise
    ELSE immediate_type_from(args, i + 1, _imm_types(args[i].class))
  ELSE immediate_type_from(args, i + 1, imm_type)

_get_immediate_type(insn) == immediate_type_from(insn.args, 1, <<>>)

\* 'arg%d' % n
ArgName(n) ==
  CASE n = 0 -> "arg0" [] n = 1 -> "arg1" [] n = 2 -> "arg2" [] n = 3 -> "arg3"
    [] n = 4 -> "arg4" [] n = 5 -> "arg5" [] n = 6 -> "arg6" [] OTHER -> "arg-1"

RECURSIVE Join(_, _)
\* sep.join(list)
Join(sep, list) ==
  IF list = <<>> THEN <<>>
  ELSE IF Len(list) = 1 THEN list[1]
  ELSE list[1] \o sep \o Join(sep, Tail(list))

RECURSIVE params_from_by_position(_, _, _, _, _)
\* a parameter list that numbers the parameters by the position of the operand
params_from_by_position(insn, filter_rm, i, arg_count, result) ==
  IF i > Len(insn.args) THEN Ok(result)
  ELSE LET arg == insn.args[i] IN
    IF is_implicit_reg(arg.class)
      THEN params_from_by_position(insn, filter_rm, i + 1, arg_count + 1, result)
    ELSE IF filter_rm /\ arg.class = <<"Rm">>
      THEN params_from_by_position(insn, filter_rm, i + 1, arg_count, result)
    ELSE LET type == _get_arg_type_name(arg, insn_type_of(insn)) IN
      IF ~type.ok THEN Raise
      ELSE params_from_by_position(insn, filter_rm, i + 1, arg_count + 1,
                       Append(result, <<"[[maybe_unused]]">> \o type.val \o <<ArgName(arg_count)>>))

RECURSIVE params_from(_, _, _, _, _)
\* the loop of _get_params from argument i on: the list of parameter strings
params_from(insn, filter_rm, i, arg_count, result) ==
  IF i > Len(insn.args) THEN Ok(result)
  ELSE LET arg == insn.args[i] IN
    IF is_implicit_reg(arg.class) THEN params_from(insn, filter_rm, i + 1, arg_count, result)
    ELSE IF filter_rm /\ arg.class = <<"Rm">>
      THEN params_from(insn, filter_rm, i + 1, arg_count, result)
    ELSE LET type == _get_arg_type_name(arg, insn_type_of(insn)) IN
      IF ~type.ok THEN Raise
      ELSE params_from(insn, filter_rm, i + 1, arg_count + 1,
                       Append(result, <<"[[maybe_unused]]">> \o type.val \o <<ArgName(arg_count)>>))

\* _get_params(insn, filter): the parameter list as one string; filter_rm says
\* that filter is the lambda that drops the 'Rm' operand
_get_params(insn, filter_rm) ==
  LET result == params_from(insn, filter_rm, 1, 0, <<>>)
  IN IF result.ok THEN Ok(Join(<<",">>, result.val)) ELSE Raise

_contains_mem(insn) == \E i \in DOMAIN insn.args : is_mem_op(insn.args[i].class)

ROUNDING_MODES == {"FE_TONEAREST", "FE_DOWNWARD", "FE_UPWARD", "FE_TOWARDZERO", "FE_TIESAWAY"}

\* re.search('[_a-zA-Z]', param) for the template parameters of the model
HasLetter(param) == param \notin {"0", "1", "15", "23"}

\* the C++ kind of one template parameter
TemplateKind(param) ==
  IF param \in ROUNDING_MODES THEN "int"
  ELSE IF param \in {"true", "false"} THEN "bool"
  ELSE IF HasLetter(param) THEN "typename"
  ELSE "int"

\* _get_template_name(insn): [template, name]; template is <<>> for None.
\* A template mnemonic is <<stem..., "<", param, ",", param, ..., ">">>.
_get_template_name(insn) ==
  LET name == insn.asm IN
  IF ~Contains(name, "<") THEN [template |-> <<>>, name |-> name]
  ELSE LET lt == CHOOSE k \in 1..Len(name) : name[k] = "<" /\ \A j \in 1..(k - 1) : name[j] # "<"
           inner == DropLast(SubSeq(name, lt + 1, Len(name)), 1)
           params == split(inner, ",")
           kinds == [i \in DOMAIN params |->
                       <<TemplateKind(IF params[i] = <<>> THEN "" ELSE params[i][1])>>]
       IN [template |-> <<"template <">> \o Join(<<",">>, kinds) \o <<">">>,
           name |-> SubSeq(name, 1, lt - 1)]

---------------------------------------------------------------------------
(* gen_asm.py: emission.  A printed line is a sequence of tokens; an       *)
(* emitter returns [ok, lines]: the lines it printed, and whether it       *)
(* returned (ok) or raised after printing them.                            *)
Printed(lines) == [ok |-> TRUE, lines |-> lines]
Raised(lines) == [ok |-> FALSE, lines |-> lines]
NoLines == Printed(<<>>)
\* first a, then (when a returned) b
Then(a, b) == IF a.ok THEN [ok |-> b.ok, lines |-> a.lines \o b.lines] ELSE a

RECURSIVE Seqn(_)
\* the emitters of a list run one after the other, up to the first that raises
Seqn(list) == IF list = <<>> THEN NoLines ELSE Then(Head(list), Seqn(Tail(list)))

\* list.index(x): Raise (ValueError) when x is not in the list
index(list, x) ==
  IF \E i \in DOMAIN list : list[i] = x
    THEN Ok((CHOOSE i \in DOMAIN list : list[i] = x /\ \A j \in 1..(i - 1) : list[j] # x) - 1)
    ELSE Raise

\* a match by the mnemonic and the classes of the operands
_is_insn_match_by_class(insn, expected_name, expected_args) ==
  /\ insn.asm = expected_name
  /\ [i \in DOMAIN insn.args |-> insn.args[i].class]
       = [i \in DOMAIN expected_args |-> expected_args[i].class]

_is_insn_match(insn, expected_name, expected_args) ==
  insn.asm = expected_name /\ insn.args = expected_args

\* the argument names 'arg0', ..., one per element of args that is not an
\* implicit register
RECURSIVE explicit_arg_names(_, _)
explicit_arg_names(args, arg_count) ==
  IF args = <<>> THEN <<>>
  ELSE IF is_implicit_reg(Head(args).class) THEN explicit_arg_names(Tail(args), arg_count)
  ELSE <<<<ArgName(arg_count)>>>> \o explicit_arg_names(Tail(args), arg_count + 1)

_gen_emit_shortcut_shift(insn, all_insns) ==
  LET non_imm_args == SelectSeq(insn.args, LAMBDA arg : arg.class # <<"Imm8">>)
      imm_arg_index == index(insn.args, [class |-> <<"Imm8">>])
  IN IF ~imm_arg_index.ok THEN Raised(<<>>)
     ELSE Seqn([k \in DOMAIN all_insns |->
            IF ~_is_insn_match(all_insns[k], insn.asm \o <<"ByOne">>, non_imm_args)
              THEN NoLines
              ELSE Printed(<< <<"if (", ArgName(imm_arg_index.val), "== 1) return">>
                              \o insn.asm \o <<"ByOne", "(">>
                              \o Join(<<",">>, explicit_arg_names(non_imm_args, 0))
                              \o <<");">> >>)])

\* the accumulator form delegating back to the generic record, wide immediate
\* and all
_gen_emit_shortcut_accumulator_imm8_to_generic(insn, all_insns) ==
  IF Len(insn.args) # 3 \/ ~Has(insn.args[1], "usage")
       \/ insn.args[1].class \notin {<<"AX">>, <<"EAX">>, <<"RAX">>}
    THEN Raised(<<>>)
  ELSE Seqn([k \in DOMAIN all_insns |->
         IF ~_is_insn_match(all_insns[k], DropLast(insn.asm, 1),
                            <<[class |-> IF insn.args[1].class = <<"AX">> THEN <<"GeneralReg16">>
                                         ELSE IF insn.args[1].class = <<"EAX">>
                                           THEN <<"GeneralReg32">> ELSE <<"GeneralReg64">>,
                               usage |-> insn.args[1].usage],
                              insn.args[2], insn.args[3]>>)
           THEN NoLines
           ELSE Printed(<< <<"if (IsInRange<int8_t>(", "arg0", ")) {">>,
                           <<"return">> \o all_insns[k].asm
                             \o <<"(", "DerivedAssemblerType::Accumulator()", ",",
                                  "static_cast<int8_t>(", "arg0", ")", ");">>,
                           <<"}">> >>)])

_gen_emit_shortcut_accumulator_imm8(insn, all_insns) ==
  LET insn_name == DropLast(insn.asm, 1)
      args == insn.args
  IN IF ~(Len(args) = 3 /\ args[3].class = <<"FLAGS">>) THEN Raised(<<>>)
     ELSE LET acc_class == args[1].class IN
       IF acc_class \notin {<<"AX">>, <<"EAX">>, <<"RAX">>} THEN Raised(<<>>)
       ELSE IF ~Has(args[1], "usage") \/ ~Has(args[3], "usage") THEN Raised(<<>>)
       ELSE LET greg_class == CASE acc_class = <<"AX">> -> <<"GeneralReg16">>
                                [] acc_class = <<"EAX">> -> <<"GeneralReg32">>
                                [] acc_class = <<"RAX">> -> <<"GeneralReg64">>
                maybe_8bit_imm_args == <<[class |-> greg_class, usage |-> args[1].usage],
                                         [class |-> <<"Imm8">>],
                                         [class |-> <<"FLAGS">>, usage |-> args[3].usage]>>
            IN Seqn([k \in DOMAIN all_insns |->
                 IF ~_is_insn_match(all_insns[k], insn_name \o <<"Imm8">>, maybe_8bit_imm_args)
                   THEN NoLines
                   ELSE Printed(<< <<"if (IsInRange<int8_t>(", "arg0", ")) {">>,
                                   <<"return">> \o all_insns[k].asm
                                     \o <<"(", "DerivedAssemblerType::Accumulator()", ",",
                                          "static_cast<int8_t>(", "arg0", ")", ");">>,
                                   <<"}">> >>)])

\* cls.startswith('Imm'), cls.startswith('GeneralReg')
startswith_Imm(cls) == cls # <<>> /\ cls[1] \in {"Imm2", "Imm8", "Imm16", "Imm32", "Imm64"}
startswith_GeneralReg(cls) ==
  cls # <<>> /\ cls[1] \in {"GeneralReg", "GeneralReg8", "GeneralReg16",
                             "GeneralReg32", "GeneralReg64"}

_gen_emit_shortcut_generic_imm8(insn, all_insns) ==
  LET maybe_8bit_imm_args == [i \in DOMAIN insn.args |->
          IF startswith_Imm(insn.args[i].class) THEN [class |-> <<"Imm8">>] ELSE insn.args[i]]
      imm_arg_index == index(maybe_8bit_imm_args, [class |-> <<"Imm8">>])
  IN IF ~imm_arg_index.ok THEN Raised(<<>>)
     ELSE Seqn([k \in DOMAIN all_insns |->
            IF ~_is_insn_match(all_insns[k], insn.asm \o <<"Imm8">>, maybe_8bit_imm_args)
              THEN NoLines
              ELSE LET params == _get_params(insn, FALSE) IN
                IF ~params.ok THEN Raised(<<>>)
                ELSE LET arg_count == Len(split(params.val, ",")) IN
                  Printed(<< <<"if (IsInRange<int8_t>(", ArgName(arg_count - 1), ")) {">>,
                             <<"return">> \o all_insns[k].asm \o <<"(">>
                               \o Join(<<",">>, [n \in 1..arg_count |->
                                     IF n - 1 = arg_count - 1
                                       THEN <<"static_cast<int8_t>(", ArgName(n - 1), ")">>
                                       ELSE <<ArgName(n - 1)>>])
                               \o <<");">>,
                             <<"}">> >>)])

_gen_emit_shortcut_accumulator(insn, all_insns) ==
  LET cls == insn.args[1].class IN
  IF cls \notin {<<"GeneralReg8">>, <<"GeneralReg16">>, <<"GeneralReg32">>, <<"GeneralReg64">>}
    THEN Raised(<<>>)
  ELSE IF ~Has(insn.args[1], "usage") THEN Raised(<<>>)
  ELSE LET accumulator_name == CASE cls = <<"GeneralReg8">> -> <<"AL">>
                                 [] cls = <<"GeneralReg16">> -> <<"AX">>
                                 [] cls = <<"GeneralReg32">> -> <<"EAX">>
                                 [] cls = <<"GeneralReg64">> -> <<"RAX">>
           maybe_accumulator_args ==
             <<[class |-> accumulator_name, usage |-> insn.args[1].usage]>> \o Tail(insn.args)
       IN Seqn([k \in DOMAIN all_insns |->
            IF ~_is_insn_match(all_insns[k], insn.asm \o <<"Accumulator">>, maybe_accumulator_args)
              THEN NoLines
              ELSE LET params == _get_params(insn, FALSE) IN
                IF ~params.ok THEN Raised(<<>>)
                ELSE LET arg_count == Len(split(params.val, ",")) IN
                  Printed(<< <<"if (DerivedAssemblerType::IsAccumulator(", "arg0", ")) {">>,
                             <<"return">> \o all_insns[k].asm \o <<"(">>
                               \o Join(<<",">>, [n \in 1..(arg_count - 1) |-> <<ArgName(n)>>])
                               \o <<");">>,
                             <<"}">> >>)])

\* the accumulator family before the two immediate families
_gen_emit_shortcut_accumulator_first(insn, all_insns) ==
  Seqn(<<
    IF Len(insn.args) > 1 /\ startswith_GeneralReg(insn.args[1].class)
      THEN _gen_emit_shortcut_accumulator(insn, all_insns) ELSE NoLines,
    IF exactly_one_of([i \in DOMAIN insn.args |-> insn.args[i].class = <<"Imm8">>])
      THEN _gen_emit_shortcut_shift(insn, all_insns) ELSE NoLines,
    IF exactly_one_of([i \in DOMAIN insn.args |-> insn.args[i].class \in {<<"Imm16">>, <<"Imm32">>}])
      THEN IF endswith(insn.asm, <<"Accumulator">>)
             THEN _gen_emit_shortcut_accumulator_imm8(insn, all_insns)
             ELSE _gen_emit_shortcut_generic_imm8(insn, all_insns)
      ELSE NoLines >>)

_gen_emit_shortcut(insn, all_insns) ==
  Seqn(<<
    IF exactly_one_of([i \in DOMAIN insn.args |-> insn.args[i].class = <<"Imm8">>])
      THEN _gen_emit_shortcut_shift(insn, all_insns) ELSE NoLines,
    IF exactly_one_of([i \in DOMAIN insn.args |-> insn.args[i].class \in {<<"Imm16">>, <<"Imm32">>}])
      THEN IF endswith(insn.asm, <<"Accumulator">>)
             THEN _gen_emit_shortcut_accumulator_imm8(insn, all_insns)
             ELSE _gen_emit_shortcut_generic_imm8(insn, all_insns)
      ELSE NoLines,
    IF Len(insn.args) > 1 /\ startswith_GeneralReg(insn.args[1].class)
      THEN _gen_emit_shortcut_accumulator(insn, all_insns) ELSE NoLines >>)

\* _ARGUMENT_FORMATS_TO_SIZES[cls]: Raise (KeyError) for a class not in the table
_ARGUMENT_FORMATS_TO_SIZES(cls) ==
  CASE cls = <<"X87Reg">> -> Ok(<<"RegisterDefaultBit">>)
    [] cls \in {<<"Cond">>, <<"Imm2">>, <<"Imm8">>, <<"Imm16">>, <<"Imm32">>, <<"Imm64">>} -> Ok(<<>>)
    [] cls \in {<<"FpReg32">>, <<"FpReg64">>, <<"XmmReg">>, <<"VecReg128">>}
         -> Ok(<<"VectorRegister128Bit">>)
    [] cls \in {<<"YmmReg">>, <<"VecReg256">>} -> Ok(<<"VectorRegister256Bit">>)
    [] cls = <<"GeneralReg">> -> Ok(<<"RegisterDefaultBit">>)
    [] cls = <<"GeneralReg8">> -> Ok(<<"Register8Bit">>)
    [] cls = <<"GeneralReg16">> -> Ok(<<"Register16Bit">>)
    [] cls = <<"GeneralReg32">> -> Ok(<<"Register32Bit">>)
    [] cls = <<"GeneralReg64">> -> Ok(<<"Register64Bit">>)
    [] cls = <<"Mem">> -> Ok(<<"Memory", "DefaultBit">>)
    [] cls = <<"Mem8">> -> Ok(<<"Memory", "8Bit">>)
    [] cls = <<"Mem16">> -> Ok(<<"Memory", "16Bit">>)
    [] cls = <<"Mem32">> -> Ok(<<"Memory", "32Bit">>)
    [] cls = <<"Mem64">> -> Ok(<<"Memory", "64Bit">>)
    [] cls = <<"Mem128">> -> Ok(<<"Memory", "128Bit">>)
    [] cls = <<"MemX87">> -> Ok(<<"Memory", "X87">>)
    [] cls = <<"MemX8716">> -> Ok(<<"Memory", "X8716Bit">>)
    [] cls = <<"MemX8732">> -> Ok(<<"Memory", "X8732Bit">>)
    [] cls = <<"MemX8764">> -> Ok(<<"Memory", "X8764Bit">>)
    [] cls = <<"MemX8780">> -> Ok(<<"Memory", "X8780Bit">>)
    [] cls = <<"RegX87">> -> Ok(<<"X87Register">>)
    [] cls = <<"VecMem32">> -> Ok(<<"Vector", "Memory", "32Bit">>)
    [] cls = <<"VecMem64">> -> Ok(<<"Vector", "Memory", "64Bit">>)
    [] cls = <<"VecMem128">> -> Ok(<<"Vector", "Memory", "128Bit">>)
    [] cls = <<"VecMem256">> -> Ok(<<"Vector", "Memory", "256Bit">>)
    [] OTHER -> Raise

\* 'x86' in arch; an architecture tag is <<"x86", "_64">>, <<"x86", "_32">>, <<"rv64">>
is_x86(arch) == Contains(arch, "x86")

\* s.replace(old, new) for one-token old and new
replace(s, old, new) == [i \in DOMAIN s |-> IF s[i] = old THEN new ELSE s[i]]

RECURSIVE instruction_args_from(_, _, _, _, _)
\* the loop of _gen_instruction_args: the list of argument strings, or Raise
instruction_args_from(insn, arch, i, arg_count, result) ==
  IF i > Len(insn.args) THEN Ok(result)
  ELSE LET arg == insn.args[i] IN
    IF is_implicit_reg(arg.class) THEN instruction_args_from(insn, arch, i + 1, arg_count, result)
    ELSE LET type == _get_arg_type_name(arg, insn_type_of(insn)) IN
      IF ~type.ok THEN Raise
      ELSE IF type.val = <<"Register">> /\ is_x86(arch) THEN
        LET size == _ARGUMENT_FORMATS_TO_SIZES(arg.class) IN
        IF ~size.ok THEN Raise
        ELSE instruction_args_from(insn, arch, i + 1, arg_count + 1,
               Append(result, <<"typename DerivedAssemblerType::">> \o size.val
                                \o <<"(", ArgName(arg_count), ")">>))
      ELSE instruction_args_from(insn, arch, i + 1, arg_count + 1,
               Append(result, <<ArgName(arg_count)>>))

_gen_instruction_args(insn, arch) == instruction_args_from(insn, arch, 1, 0, <<>>)

RECURSIVE read_write_from(_, _, _, _, _)
\* one pass of _gen_register_read_write_info over the arguments, for one usage
read_write_from(insn, arch, usage, i, arg_count) ==
  IF i > Len(insn.args) THEN NoLines
  ELSE LET arg == insn.args[i] IN
    IF is_implicit_reg(arg.class) THEN read_write_from(insn, arch, usage, i + 1, arg_count)
    ELSE LET type == _get_arg_type_name(arg, insn_type_of(insn)) IN
      IF ~type.ok THEN Raised(<<>>)
      ELSE Then(IF /\ type.val = <<"Register">> /\ is_x86(arch)
                   /\ Has(arg, "usage") /\ arg.usage \in {usage, "use_def"}
                  THEN Printed(<< <<IF usage = "use" THEN "RegisterUse(" ELSE "RegisterDef(",
                                    ArgName(arg_count), ");">> >>)
                  ELSE NoLines,
                read_write_from(insn, arch, usage, i + 1, arg_count + 1))

\* the pass of the definitions before the pass of the uses
_gen_register_write_read_info(insn, arch) ==
  Then(read_write_from(insn, arch, "def", 1, 0), read_write_from(insn, arch, "use", 1, 0))

_gen_register_read_write_info(insn, arch) ==
  Then(read_write_from(insn, arch, "use", 1, 0), read_write_from(insn, arch, "def", 1, 0))

RISCV_ARCHS == {<<"common_riscv">>, <<"rv32">>, <<"rv64">>}

RECURSIVE emit_args_from(_, _, _, _, _, _)
\* the loop of _gen_emit_instruction: the list of operand strings, or Raise
emit_args_from(insn, arch, dyn_rm, i, arg_count, result) ==
  IF i > Len(insn.args) THEN Ok(result)
  ELSE LET arg == insn.args[i] IN
    IF is_implicit_reg(arg.class) THEN emit_args_from(insn, arch, dyn_rm, i + 1, arg_count, result)
    ELSE IF arch \in RISCV_ARCHS THEN
      emit_args_from(insn, arch, dyn_rm, i + 1, arg_count + 1,
        Append(result, IF dyn_rm /\ arg.class = <<"Rm">>
                         THEN <<"Rounding::kDyn">> ELSE <<ArgName(arg_count)>>))
    ELSE LET size == _ARGUMENT_FORMATS_TO_SIZES(arg.class) IN
      IF ~size.ok THEN Raise
      ELSE emit_args_from(insn, arch, dyn_rm, i + 1, arg_count + 1,
             Append(result, size.val \o <<"(", ArgName(arg_count), ")">>))

_gen_emit_instruction(insn, arch, rip_operand, dyn_rm) ==
  LET result == emit_args_from(insn, arch, dyn_rm, 1, 0, <<>>) IN
  IF ~result.ok THEN Raised(<<>>)
  ELSE IF ~Has(insn, "processed_opcodes") THEN Raised(<<>>)
  ELSE LET args == IF rip_operand
                     THEN [i \in DOMAIN result.val |-> replace(result.val[i], "Memory", "Label")]
                     ELSE result.val
       IN Printed(<< <<"Emit">> \o _get_cxx_name(IF Has(insn, "type") THEN insn.type ELSE <<>>)
                       \o <<"Instruction<">> \o Join(<<",">>, insn.processed_opcodes)
                       \o <<">(">> \o Join(<<",">>, args) \o <<");">> >>)

HexDigits == {"0", "1", "2", "3", "4", "5", "6", "7", "8", "9",
              "a", "b", "c", "d", "e", "f", "A", "B", "C", "D", "E", "F"}
AllHex(s) == \A i \in DOMAIN s : s[i] \in HexDigits

\* one step of the opcodes loop: the processed opcode, or Raise (assert False);
\* an opcode is the sequence of its characters
process_opcode(opcode) ==
  IF Len(opcode) = 2 /\ AllHex(opcode) THEN Ok(<<"uint8_t{0x">> \o opcode \o <<"}">>)
  ELSE IF Len(opcode) = 4 /\ AllHex(opcode) THEN Ok(<<"uint16_t{0x">> \o opcode \o <<"}">>)
  ELSE IF Len(opcode) = 8 /\ AllHex(opcode) THEN Ok(<<"uint32_t{0x">> \o opcode \o <<"}">>)
  ELSE IF /\ Len(opcode) = 9 /\ opcode[5] = "_"
          /\ AllHex(SubSeq(opcode, 1, 4)) /\ AllHex(SubSeq(opcode, 6, 9))
    THEN Ok(<<"uint32_t{0x">> \o replace(opcode, "_", "'") \o <<"}">>)
  ELSE IF Len(opcode) = 1 /\ opcode[1] \in {"0", "1", "2", "3", "4", "5", "6", "7"}
    THEN Ok(<<"uint8_t{">> \o opcode \o <<"}">>)
  ELSE Raise

\* "int" in imm_type, for the types of _imm_types
contains_int(imm_type) == imm_type[1] \in {"int8_t", "int16_t", "int32_t", "int64_t"}

\* what one iteration of the loop of _gen_generic_functions_h gives:
\* the lines printed, whether it raised, the record as it left it, and
\* template_names as it left it
GenResult(ok, lines, insn, names) ==
  [ok |-> ok, lines |-> lines, insn |-> insn, template_names |-> names]

\* the binary-assembler branch for a record with 'opcodes' (processed already)
binary_body(insn, all_insns, arch, name, params) ==
  Seqn(<<
    Printed(<< <<"constexpr void">> \o name \o <<"(">> \o params \o <<") {">> >>),
    IF is_x86(arch) THEN _gen_emit_shortcut(insn, all_insns) ELSE NoLines,
    _gen_emit_instruction(insn, arch, FALSE, FALSE),
    Printed(<< <<"}">> >>),
    IF Contains(params, "const Operand&") /\ is_x86(arch)
      THEN Seqn(<<
        Printed(<< <<>>,
                   <<"constexpr void">> \o name \o <<"(">>
                     \o replace(params, "const Operand&", "const LabelOperand") \o <<") {">> >>),
        _gen_emit_shortcut(insn, all_insns),
        _gen_emit_instruction(insn, arch, TRUE, FALSE),
        Printed(<< <<"}">>, <<>> >>) >>)
      ELSE NoLines,
    IF Contains(params, "Rounding")
      THEN LET dyn_params == _get_params(insn, TRUE) IN
        IF ~dyn_params.ok THEN Raised(<< <<>> >>)
        ELSE Seqn(<<
          Printed(<< <<>>,
                     <<"constexpr void">> \o name \o <<"(">> \o dyn_params.val \o <<") {">> >>),
          _gen_emit_instruction(insn, arch, FALSE, TRUE),
          Printed(<< <<"}">>, <<>> >>) >>)
      ELSE NoLines >>)

\* the lines that delete the overloads taking a wider integer
delete_wider_overload(template, name, params, imm_type) ==
  IF imm_type # <<>> /\ contains_int(imm_type)
    THEN Printed(<<
      IF template # <<>> THEN DropLast(template, 1) \o <<",", "typename ImmType>">>
                         ELSE <<"template<typename ImmType>">>,
      <<"auto">> \o name \o <<"(">> \o replace(params, imm_type[1], "ImmType")
        \o <<") -> std::enable_if_t<std::is_integral_v<ImmType> && sizeof(">>
        \o imm_type \o <<") < sizeof(ImmType)> = delete;">> >>)
    ELSE NoLines

\* a result of the binary branch: what was printed, and the record as it left it
WithInsn(out, insn) == [ok |-> out.ok, lines |-> out.lines, insn |-> insn]

\* lines 173-194, once 'opcodes' were processed (opcodes is Raise if one of
\* them is not hexadecimal: nothing was printed yet)
binary_processed(insn, opcodes, all_insns, arch, template, name, params, imm_type) ==
  IF ~opcodes.ok THEN [ok |-> FALSE, lines |-> <<>>, insn |-> insn]
  ELSE WithInsn(Then(binary_body(Put(insn, "processed_opcodes", opcodes.val),
                                 all_insns, arch, name, params),
                     delete_wider_overload(template, name, params, imm_type)),
                Put(insn, "processed_opcodes", opcodes.val))

\* lines 172-199, after 'opcode' was rewritten to 'opcodes'
binary_with_opcodes(insn, all_insns, arch, template, name, params, imm_type) ==
  IF Has(insn, "opcodes")
    THEN binary_processed(insn,
                          Collect([i \in DOMAIN insn.opcodes |-> process_opcode(insn.opcodes[i])]),
                          all_insns, arch, template, name, params, imm_type)
    ELSE WithInsn(Then(Printed(<< <<"constexpr void">> \o name \o <<"(">> \o params \o <<");">> >>),
                       delete_wider_overload(template, name, params, imm_type)),
                  insn)

gen_binary(insn, all_insns, arch, template, name, params, imm_type) ==
  binary_with_opcodes(IF Has(insn, "opcode") THEN Put(insn, "opcodes", <<insn.opcode>>) ELSE insn,
                      all_insns, arch, template, name, params, imm_type)

gen_text(insn, arch, name, params) ==
  Then(Printed(<< <<"constexpr void">> \o name \o <<"(">> \o params \o <<") {">> >>),
       LET args == _gen_instruction_args(insn, arch) IN
       IF ~args.ok THEN Raised(<<>>)
       ELSE Printed(<< <<"Instruction(">>
                       \o Join(<<",">>, << <<"\"">> \o (IF Has(insn, "native-asm")
                                                        THEN insn["native-asm"] ELSE name)
                                              \o <<"\"">> >> \o args.val)
                       \o <<");">>,
                       <<"}">> >>))

gen_verifier(insn, arch, name, params) ==
  Seqn(<<
    Printed(<< <<"constexpr void">> \o name \o <<"(">> \o params \o <<") {">> >>),
    IF Has(insn, "feature")
      THEN Printed(<< <<"SetRequiredFeature">> \o insn.feature \o <<"();">> >>) ELSE NoLines,
    IF \E i \in DOMAIN insn.args : insn.args[i].class = <<"FLAGS">>
      THEN Printed(<< <<"SetDefinesFLAGS();">> >>) ELSE NoLines,
    _gen_register_read_write_info(insn, arch),
    Printed(<< <<"}">> >>) >>)

\* the branch of the assembler mode, lines 170-242: head is the template line
emit_for_mode(insn, all_insns, arch, assembler_mode, tn, params, imm_type, head, names) ==
  IF assembler_mode = "BINARY_ASSEMBLER"
    THEN GenResult(gen_binary(insn, all_insns, arch, tn.template, tn.name, params, imm_type).ok,
                   head \o gen_binary(insn, all_insns, arch, tn.template, tn.name, params,
                                      imm_type).lines,
                   gen_binary(insn, all_insns, arch, tn.template, tn.name, params, imm_type).insn,
                   names)
  ELSE IF assembler_mode = "TEXT_ASSEMBLER"
    THEN GenResult(gen_text(insn, arch, tn.name, params).ok,
                   head \o gen_text(insn, arch, tn.name, params).lines, insn, names)
  ELSE GenResult(gen_verifier(insn, arch, tn.name, params).ok,
                 head \o gen_verifier(insn, arch, tn.name, params).lines, insn, names)

\* lines 158-242, given the template and name, the parameters and the immediate type
generic_function_of(insn, all_insns, arch, assembler_mode, names, tn, params, imm_type) ==
  IF ~params.ok \/ ~imm_type.ok THEN GenResult(FALSE, <<>>, insn, names)
  ELSE IF tn.template # <<>> /\ [name |-> tn.name, params |-> params.val] \in names
    THEN GenResult(TRUE, <<>>, insn, names)
  ELSE emit_for_mode(insn, all_insns, arch, assembler_mode, tn, params.val, imm_type.val,
                     IF tn.template # <<>> THEN <<tn.template>> ELSE <<>>,
                     IF tn.template # <<>>
                       THEN names \cup {[name |-> tn.name, params |-> params.val]} ELSE names)

\* one iteration of the loop of _gen_generic_functions_h, for the record insn
gen_generic_function(insn, all_insns, arch, assembler_mode, names) ==
  generic_function_of(insn, all_insns, arch, assembler_mode, names,
                      _get_template_name(insn), _get_params(insn, FALSE),
                      _get_immediate_type(insn))

ADDR_MODES == <<"Absolute", "BaseDisp", "IndexDisp", "BaseIndexDisp">>

\* the memory arguments of one addressing mode: <<type, field, name suffix>>
mem_args_of(addr_mode) ==
  (IF addr_mode \in {"BaseDisp", "BaseIndexDisp"}
     THEN << <<"Register", "base", "_base">> >> ELSE <<>>)
  \o (IF addr_mode \in {"IndexDisp", "BaseIndexDisp"}
        THEN << <<"Register", "index", "_index">>, <<"ScaleFactor", "scale", "_scale">> >>
        ELSE <<>>)
  \o << <<"int32_t", "disp", "_disp">> >>

RECURSIVE mem_function_args_from(_, _, _, _, _)
\* the inner loop of _gen_memory_function_specializations_h over the arguments:
\* [incoming, outgoing], or Raise
mem_function_args_from(insn, addr_mode, i, incoming, outgoing) ==
  IF i > Len(insn.args) THEN Ok([incoming |-> incoming, outgoing |-> outgoing])
  ELSE LET arg == insn.args[i]
           arg_name == ArgName(i - 1)
       IN
    IF is_implicit_reg(arg.class)
      THEN mem_function_args_from(insn, addr_mode, i + 1, incoming, outgoing)
    ELSE IF is_mem_op(arg.class) THEN
      IF addr_mode = "Absolute"
        THEN mem_function_args_from(insn, addr_mode, i + 1,
               Append(incoming, <<"int32_t", arg_name>>),
               Append(outgoing, <<"{.disp =", arg_name, "}">>))
        ELSE LET mem_args == mem_args_of(addr_mode) IN
          mem_function_args_from(insn, addr_mode, i + 1,
            incoming \o [k \in DOMAIN mem_args |-> <<mem_args[k][1], arg_name, mem_args[k][3]>>],
            Append(outgoing, <<"{">> \o Join(<<",">>, [k \in DOMAIN mem_args |->
                       <<".", mem_args[k][2], "=", arg_name, mem_args[k][3]>>]) \o <<"}">>))
    ELSE LET type == _get_arg_type_name(arg, <<>>) IN
      IF ~type.ok THEN Raise
      ELSE mem_function_args_from(insn, addr_mode, i + 1,
             Append(incoming, type.val \o <<arg_name>>), Append(outgoing, <<arg_name>>))

\* one iteration of the addr_mode loop
mem_function(insn, template, addr_mode) ==
  LET macro_name == get_mem_macro_name(insn, <<addr_mode>>) IN
  IF ~macro_name.ok THEN Raised(<<>>)
  ELSE LET args == mem_function_args_from(insn, addr_mode, 1, <<>>, <<>>) IN
    IF ~args.ok THEN Raised(<<>>)
    ELSE Printed((IF template # <<>> THEN <<template>> ELSE <<>>) \o
           << <<"constexpr void">> \o macro_name.val \o <<"(">>
                \o Join(<<",">>, args.val.incoming) \o <<") {">>,
              insn.asm \o <<"(">> \o Join(<<",">>, args.val.outgoing) \o <<");">>,
              <<"}">> >>)

\* one iteration of the loop of _gen_memory_function_specializations_h
gen_memory_function_specializations(insn) ==
  IF ~_contains_mem(insn) \/ (Has(insn, "skip_lir") /\ insn.skip_lir) THEN NoLines
  ELSE LET tn == _get_template_name(insn)
           params == _get_params(insn, FALSE)
       IN IF ~params.ok THEN Raised(<<>>)
          ELSE Seqn([m \in DOMAIN ADDR_MODES |-> mem_function(insn, tn.template, ADDR_MODES[m])])

---------------------------------------------------------------------------
(* main(): one invocation of the generator.  argv is [mode, files]: the    *)
(* mode selector and the input files (each [arch, insns], what json.load   *)
(* returns); output file k is the one paired with input file k, and file 1 *)
(* is the output of '--using'.                                             *)

GEN_MODES == {"--binary-assembler", "--text-assembler", "--verifier-assembler"}

assembler_mode_of(mode) ==
  CASE mode = "--binary-assembler" -> "BINARY_ASSEMBLER"
    [] mode = "--text-assembler" -> "TEXT_ASSEMBLER"
    [] OTHER -> "VERIFIER_ASSEMBLER"

\* a file nobody has opened in this invocation
Untouched(file) == [file EXCEPT !.opened = FALSE]
\* open(name, 'w'): the file exists and is empty
Opened == [exists |-> TRUE, opened |-> TRUE, text |-> <<>>]

NoFile == [exists |-> FALSE, opened |-> FALSE, text |-> <<>>]

\* main, lines 527-533: the mode selector is checked first
CheckMode ==
  /\ pc = "start"
  /\ pc' = IF argv.mode \in GEN_MODES \cup {"--using"}
             THEN (IF pair <= Len(argv.files) THEN "expand_operands"
                   ELSE IF argv.mode = "--using" THEN "write_using" ELSE "done")
             ELSE "aborted"
  /\ UNCHANGED <<lir_vars, argv, pair, insns, by_operands, by_encodings, loaded_defs, idx,
                 template_names, fs, instruction_names, run, prev_fs>>

\* load_asm_defs, line 206
ExpandOperands ==
  /\ pc = "expand_operands"
  /\ LET result == _expand_insns_by_operands(argv.files[pair].insns) IN
       /\ by_operands' = result
       /\ insns' = IF result.ok THEN result.val ELSE argv.files[pair].insns
       /\ pc' = IF result.ok THEN "expand_encodings" ELSE "aborted"
  /\ by_encodings' = Raise
  /\ loaded_defs' = <<>>
  /\ UNCHANGED <<lir_vars, argv, pair, idx, template_names, fs, instruction_names, run, prev_fs>>

\* load_asm_defs, line 207
ExpandEncodings ==
  /\ pc = "expand_encodings"
  /\ LET result == _expand_insn_by_encodings(insns) IN
       /\ by_encodings' = result
       /\ insns' = IF result.ok THEN result.val ELSE insns
       /\ pc' = IF result.ok THEN "sort" ELSE "aborted"
  /\ UNCHANGED <<lir_vars, argv, pair, by_operands, loaded_defs, idx, template_names, fs,
                 instruction_names, run, prev_fs>>

\* the orders in which a set can be iterated
Orders(S) == {order \in [1..Cardinality(S) -> S] : \A x \in S : \E i \in DOMAIN order : order[i] = x}

\* a sort by mnemonic that is free to order the records of one mnemonic
SortAndFilterUnstable ==
  /\ pc = "sort"
  /\ \E order \in Orders(DOMAIN insns) :
       /\ \A i \in 1..(Len(insns) - 1) : ~StrLess(insns[order[i + 1]].asm, insns[order[i]].asm)
       /\ insns' = [i \in DOMAIN insns |-> insns[order[i]]]
  /\ loaded_defs' = filter_for_asm(insns')
  /\ pc' = IF argv.mode = "--using" THEN "collect_names" ELSE "open"
  /\ UNCHANGED <<lir_vars, argv, pair, by_operands, by_encodings, idx, template_names, fs,
                 instruction_names, run, prev_fs>>

\* load_asm_defs, lines 208-210, and the filter of _load_asm_defs
SortAndFilter ==
  /\ pc = "sort"
  /\ insns' = sorted_by_asm(insns)
  /\ loaded_defs' = filter_for_asm(insns')
  /\ pc' = IF argv.mode = "--using" THEN "collect_names" ELSE "open"
  /\ UNCHANGED <<lir_vars, argv, pair, by_operands, by_encodings, idx, template_names, fs,
                 instruction_names, run, prev_fs>>

\* main, line 550: the output file is opened for writing once the file is loaded
OpenOutput ==
  /\ pc = "open"
  /\ fs' = [fs EXCEPT ![pair] = Opened]
  /\ idx' = 1
  /\ template_names' = {}
  /\ pc' = "generic"
  /\ UNCHANGED <<lir_vars, argv, pair, insns, by_operands, by_encodings, loaded_defs,
                 instruction_names, run, prev_fs>>

\* _gen_generic_functions_h: one iteration of its loop; what it printed before
\* an exception is in the file
GenGenericFunction ==
  /\ pc = "generic"
  /\ idx <= Len(loaded_defs)
  /\ \E r \in {gen_generic_function(loaded_defs[idx], loaded_defs, argv.files[pair].arch,
                                     assembler_mode_of(argv.mode), template_names)} :
       /\ fs' = [fs EXCEPT ![pair].text = @ \o r.lines]
       /\ loaded_defs' = [loaded_defs EXCEPT ![idx] = r.insn]
       /\ template_names' = r.template_names
       /\ idx' = IF r.ok THEN idx + 1 ELSE idx
       /\ pc' = IF r.ok THEN "generic" ELSE "aborted"
  /\ UNCHANGED <<lir_vars, argv, pair, insns, by_operands, by_encodings, instruction_names, run, prev_fs>>

\* main, line 552: after the generic functions, the memory specializations
\* (binary mode, x86) or the end of the with block
EndGeneric ==
  /\ pc = "generic"
  /\ idx > Len(loaded_defs)
  /\ IF argv.mode = "--binary-assembler" /\ is_x86(argv.files[pair].arch)
       THEN pc' = "memory" /\ idx' = 1 /\ pair' = pair
       ELSE /\ idx' = 1
            /\ pair' = pair + 1
            /\ pc' = IF pair + 1 <= Len(argv.files) THEN "expand_operands" ELSE "done"
  /\ UNCHANGED <<lir_vars, argv, insns, by_operands, by_encodings, loaded_defs, template_names, fs,
                 instruction_names, run, prev_fs>>

\* _gen_memory_function_specializations_h: one iteration of its loop
GenMemoryFunctions ==
  /\ pc = "memory"
  /\ idx <= Len(loaded_defs)
  /\ \E r \in {gen_memory_function_specializations(loaded_defs[idx])} :
       /\ fs' = [fs EXCEPT ![pair].text = @ \o r.lines]
       /\ idx' = IF r.ok THEN idx + 1 ELSE idx
       /\ pc' = IF r.ok THEN "memory" ELSE "aborted"
  /\ UNCHANGED <<lir_vars, argv, pair, insns, by_operands, by_encodings, loaded_defs, template_names,
                 instruction_names, run, prev_fs>>

EndMemory ==
  /\ pc = "memory"
  /\ idx > Len(loaded_defs)
  /\ idx' = 1
  /\ pair' = pair + 1
  /\ pc' = IF pair + 1 <= Len(argv.files) THEN "expand_operands" ELSE "done"
  /\ UNCHANGED <<lir_vars, argv, insns, by_operands, by_encodings, loaded_defs, template_names, fs,
                 instruction_names, run, prev_fs>>

\* main, lines 558-561: '--using' collects the mnemonics of every input file
CollectNames ==
  /\ pc = "collect_names"
  /\ instruction_names' = instruction_names \cup {loaded_defs[i].asm : i \in DOMAIN loaded_defs}
  /\ pair' = pair + 1
  /\ pc' = IF pair + 1 <= Len(argv.files) THEN "expand_operands" ELSE "write_using"
  /\ UNCHANGED <<lir_vars, argv, insns, by_operands, by_encodings, loaded_defs, idx, template_names, fs,
                 run, prev_fs>>

\* main, lines 563-570: the names are printed in the iteration order of a set of
\* strings, which the hash seed of the process decides
WriteUsing ==
  /\ pc = "write_using"
  /\ \E order \in Orders(instruction_names) :
       fs' = [fs EXCEPT ![1] =
                [Opened EXCEPT !.text =
                    << <<>>, <<"#ifndef IMPORT_ASSEMBLER_FUNCTIONS">>,
                       <<"#error This file is supposed to be included from berberis/intrinsics/macro_assembler-inl.h">>,
                       <<"#endif">>, <<>> >>
                    \o [i \in DOMAIN order |-> <<"using Assembler::">> \o order[i] \o <<";">>]]]
  /\ pc' = "done"
  /\ UNCHANGED <<lir_vars, argv, pair, insns, by_operands, by_encodings, loaded_defs, idx,
                 template_names, instruction_names, run, prev_fs>>

\* the program is run a second time on the same command line; the files of the
\* first invocation are still there
Rerun ==
  /\ pc \in {"done", "aborted"}
  /\ run = 1
  /\ run' = 2
  /\ prev_fs' = fs
  /\ fs' = [k \in DOMAIN fs |-> Untouched(fs[k])]
  /\ argv' = argv
  /\ pc' = "start"
  /\ pair' = 1
  /\ insns' = <<>>
  /\ by_operands' = Raise
  /\ by_encodings' = Raise
  /\ loaded_defs' = <<>>
  /\ idx' = 1
  /\ template_names' = {}
  /\ instruction_names' = {}
  /\ UNCHANGED lir_vars

---------------------------------------------------------------------------
(* The inputs.                                                             *)
MaxInsns == 2   \* records in one definition file
MaxArgs == 2    \* operands of a generated record
MaxAlts == 2    \* alternatives of a slash-separated operand class

Arg(cls, usage) == [class |-> <<cls>>, usage |-> usage]
Imm(cls) == [class |-> <<cls>>]
Plain(asm, name, args) == [name |-> name, asm |-> asm, mnemo |-> upper(asm), args |-> args]
File(arch, list) == [arch |-> arch, insns |-> list]
X86_64 == <<"x86", "_64">>
X86_32 == <<"x86", "_32">>
RV64 == <<"rv64">>

\* the sequences over S of length lo..hi
SeqsOf(S, lo, hi) == UNION {[1..n -> S] : n \in lo..hi}

\* Records of an x86 definition file, as written in the JSON.
AddRegReg ==
  Plain(<<"Add">>, <<"Add", "Reg", "Reg">>,
        <<Arg("GeneralReg32", "use_def"), Arg("GeneralReg32", "use"), Arg("FLAGS", "def")>>)
    @@ [opcodes |-> << <<"0", "1">> >>, reg_to_rm |-> TRUE]
AddRegImm ==
  Plain(<<"Add">>, <<"Add", "Reg", "Imm">>,
        <<Arg("GeneralReg32", "use_def"), Imm("Imm32"), Arg("FLAGS", "def")>>)
    @@ [opcodes |-> << <<"8", "1">>, <<"0">> >>]
AddRegImm8 ==
  Plain(<<"Add", "Imm8">>, <<"Add", "Reg", "Imm">>,
        <<Arg("GeneralReg32", "use_def"), Imm("Imm8"), Arg("FLAGS", "def")>>)
    @@ [opcodes |-> << <<"8", "3">>, <<"0">> >>]
\* a family declared by its stems; the name is derived
ShiftFamily ==
  [stems |-> << <<"Shl", "ByCl">>, <<"Test">> >>,
   args |-> <<Arg("GeneralReg8", "use_def"), Arg("RCX", "use"), Arg("FLAGS", "def")>>]
\* a family declared by its encodings, with an operand that is a register or memory
AddEncodings ==
  [encodings |-> << [stem |-> <<"Add">>, encoding |-> [opcodes |-> << <<"0", "3">> >>]] >>,
   args |-> <<Arg("GeneralReg32", "use_def"), [class |-> <<"Mem32", "/", "GeneralReg32">>, usage |-> "use"],
              Arg("FLAGS", "def")>>]
\* no opcodes: the binary assembler only declares it
TestMemImm ==
  Plain(<<"Test">>, <<"Test", "Op", "Imm">>, <<Arg("Mem32", "use"), Imm("Imm32"), Arg("FLAGS", "def")>>)
    @@ [feature |-> <<"SSE3">>]
\* excluded from the assembler
ShlSkipped ==
  Plain(<<"Shl">>, <<"Shl", "Reg">>, <<Arg("GeneralReg32", "use_def")>>) @@ [skip_asm |-> TRUE]
\* two instantiations of one template that map to the same C++ signature
TestFloat32 ==
  Plain(<<"Test", "<", "Float32", ">">>, <<"Test", "Float32">>, <<Arg("FpReg32", "def")>>)
TestFloat64 ==
  Plain(<<"Test", "<", "Float64", ">">>, <<"Test", "Float64">>, <<Arg("FpReg64", "def")>>)
\* malformed records
TwoImmediates == Plain(<<"Test">>, <<"Test", "Imm", "Imm">>, <<Imm("Imm8"), Imm("Imm16")>>)
TwoMemories ==
  Plain(<<"Shl">>, <<"Shl", "Op", "Op">>, <<Arg("Mem32", "def"), Arg("Mem32", "use")>>)
    @@ [opcodes |-> << <<"8", "8">> >>]
ImmAndLabel == Plain(<<"Shl">>, <<"Shl", "Imm">>, <<Imm("Imm8"), Arg("Label", "use")>>)
BadOpcode ==
  Plain(<<"Test">>, <<"Test", "Reg">>, <<Arg("GeneralReg64", "use")>>) @@ [opcodes |-> << <<"G", "0">> >>]

MainInsns == {AddRegReg, AddRegImm, AddRegImm8, ShiftFamily, AddEncodings, TestMemImm,
              ShlSkipped, TestFloat32, TestFloat64, TwoImmediates, TwoMemories,
              ImmAndLabel, BadOpcode}

\* the definition files of the generator runs: up to MaxInsns records each
MainFiles ==
  {File(X86_64, list) : list \in SeqsOf(MainInsns, 1, MaxInsns)}
  \cup {File(RV64, <<insn>>) : insn \in {AddRegReg, TestMemImm, ShiftFamily}}
  \cup {File(X86_32, <<insn>>) : insn \in {AddRegReg, TestMemImm, AddEncodings}}

\* the command lines: one file pair, or two
MainArgvs ==
  {[mode |-> mode, files |-> <<file>>] :
     mode \in GEN_MODES \cup {"--using", "--help"}, file \in MainFiles}
  \cup {[mode |-> mode, files |-> <<File(X86_64, <<a>>), File(X86_64, <<b>>)>>] :
          mode \in GEN_MODES \cup {"--using"},
          a \in {AddRegReg, ShiftFamily}, b \in {AddRegImm8, TwoImmediates, AddEncodings}}

----------------------------------------------------------------------------
(* Definition files for the loader: one record with every operand list up  *)
(* to MaxArgs operands, plain and as a family; every declaration form and  *)
(* every mixture of forms with at most one operand; and the files of up to *)
(* MaxInsns records of a small pool.                                       *)

PlainClasses ==
  {"GeneralReg8", "Mem8", "Imm8", "RCX", "FLAGS", "Label", "Cond", "XmmReg", "Disp"}

RECURSIVE JoinSlash(_)
\* 'a/b/c' of the alternatives a, b, c
JoinSlash(alts) ==
  IF Len(alts) = 1 THEN <<alts[1]>> ELSE <<alts[1], "/">> \o JoinSlash(Tail(alts))

\* operand classes with 2..MaxAlts alternatives
SlashClasses == {JoinSlash(alts) : alts \in SeqsOf({"Mem8", "GeneralReg8"}, 2, MaxAlts)}

LoadArgs ==
  {[class |-> <<c>>, usage |-> "use"] : c \in PlainClasses}
  \cup {[class |-> c, usage |-> "use"] : c \in SlashClasses}

LoadArgLists == SeqsOf(LoadArgs, 0, MaxArgs)

Opcodes01 == [opcodes |-> << <<"0", "1">> >>]

\* the three declaration forms
PlainForm(args) == Plain(<<"Add">>, <<"Add", "Accumulator">>, args)
StemsForm(stems, args) == [stems |-> stems, args |-> args]
EncodingsForm(encodings, args) == [encodings |-> encodings, args |-> args]

WellFormed(args) ==
  {PlainForm(args),
   StemsForm(<< <<"Shl", "ByCl">>, <<"Add">> >>, args)}

\* the forms checked with operand lists of at most one operand
FewArgsForms(args) ==
  {StemsForm(<< <<"Test">> >>, args),
   EncodingsForm(<< [stem |-> <<"Add">>, encoding |-> Opcodes01] >>, args),
   EncodingsForm(<< [stem |-> <<"Test">>, encoding |-> Opcodes01],
                    [stem |-> <<"Add">>, encoding |-> [feature |-> <<"SSE3">>] @@ Opcodes01] >>,
                 args)}

\* records that mix the forms or have none, with empty and non-empty values
Mixed(args) ==
  {StemsForm(<< <<"Add">> >>, args) @@ [encodings |-> <<>>],
   StemsForm(<< <<"Add">> >>, args)
     @@ [encodings |-> << [stem |-> <<"Test">>, encoding |-> Opcodes01] >>],
   StemsForm(<<>>, args)
     @@ [encodings |-> << [stem |-> <<"Test">>, encoding |-> Opcodes01] >>],
   PlainForm(args) @@ [stems |-> << <<"Test">> >>],
   PlainForm(args) @@ [stems |-> <<>>],
   PlainForm(args) @@ [encodings |-> << [stem |-> <<"Test">>, encoding |-> Opcodes01] >>],
   PlainForm(args) @@ [encodings |-> <<>>],
   [args |-> args],
   StemsForm(<<>>, args),
   EncodingsForm(<<>>, args),
   [name |-> <<"Add", "Accumulator">>, asm |-> <<"Add">>, args |-> args],
   EncodingsForm(<< [stem |-> <<"Add">>, encoding |-> <<>>] >>, args)}

\* the records of the files with several records
LoadPool ==
  {Plain(<<"Test">>, <<"Test", "Reg">>, <<Arg("GeneralReg8", "use")>>),
   Plain(<<"Add">>, <<"Add", "Reg">>, <<Arg("GeneralReg8", "use")>>),
   Plain(<<"Add">>, <<"Add", "Imm">>, <<Imm("Imm8")>>),
   Plain(<<"Add">>, <<"Add", "XReg">>, <<Arg("XmmReg", "use")>>) @@ [skip_asm |-> TRUE],
   StemsForm(<< <<"Shl">>, <<"Add">> >>,
             <<[class |-> <<"Mem8", "/", "GeneralReg8">>, usage |-> "use"]>>),
   StemsForm(<< <<"Test">> >>,
             <<[class |-> <<"Mem8", "/", "GeneralReg8">>, usage |-> "use"],
               [class |-> <<"GeneralReg8", "/", "Mem8">>, usage |-> "use"]>>)}

LoadFiles ==
  {File(X86_64, <<insn>>) : insn \in UNION {WellFormed(args) : args \in LoadArgLists}}
  \cup {File(X86_64, <<insn>>) :
          insn \in UNION {FewArgsForms(args) \cup Mixed(args) : args \in SeqsOf(LoadArgs, 0, 1)}}
  \cup {File(X86_64, list) : list \in SeqsOf(LoadPool, 2, MaxInsns)}

LoadArgvs == {[mode |-> "--text-assembler", files |-> <<file>>] : file \in LoadFiles}

InitOn(argvs) ==
  /\ argv \in argvs
  /\ pc = "start"
  /\ pair = 1
  /\ insns = <<>>
  /\ by_operands = Raise
  /\ by_encodings = Raise
  /\ loaded_defs = <<>>
  /\ idx = 1
  /\ template_names = {}
  /\ instruction_names = {}
  /\ fs = [k \in DOMAIN argv.files |-> NoFile]
  /\ run = 1
  /\ prev_fs = fs
  /\ lir_arch = <<>>
  /\ allowlist_found = {}
  /\ intrs = <<>>
  /\ arch_intrs = <<>>

Init == InitOn(MainArgvs)

Next ==
  \/ CheckMode
  \/ ExpandOperands
  \/ ExpandEncodings
  \/ SortAndFilter
  \/ OpenOutput
  \/ GenGenericFunction
  \/ EndGeneric
  \/ GenMemoryFunctions
  \/ EndMemory
  \/ CollectNames
  \/ WriteUsing
  \/ Rerun

Spec == Init /\ [][Next]_vars

\* the loader alone: load_asm_defs and the filter of _load_asm_defs
InitLoad == InitOn(LoadArgvs)

NextLoad ==
  \/ CheckMode
  \/ ExpandOperands
  \/ ExpandEncodings
  \/ SortAndFilter

SpecLoad == InitLoad /\ [][NextLoad]_vars

----------------------------------------------------------------------------
(* Properties of a generator run                                           *)

\* the identity of a catalog record: its mnemonic and its operand classes
ClassesOf(insn) == [i \in DOMAIN insn.args |-> insn.args[i].class]
Identity(insn) == <<insn.asm, ClassesOf(insn)>>

\* C1: a load that did not abort returns a catalog in which no two records
\* have the same mnemonic and the same list of operand classes.
C1_CatalogHasNoDuplicates ==
  pc \in {"open", "collect_names"}
    => \A i, j \in DOMAIN loaded_defs :
         i # j => Identity(loaded_defs[i]) # Identity(loaded_defs[j])

RunEnded == pc \in {"done", "aborted"}

C3_UsingRunsAgree ==
  (run = 2 /\ RunEnded /\ argv.mode = "--using") => fs = prev_fs

\* C4: a run in binary, text or verifier mode that has aborted has created,
\* truncated or written none of its output files.
C4_AbortLeavesNoOutput ==
  (run = 1 /\ pc = "aborted" /\ argv.mode \in GEN_MODES)
    => \A k \in DOMAIN fs : ~fs[k].opened /\ ~fs[k].exists

\* the operands of a record that satisfy a class predicate
CountArgs(insn, P(_)) == Cardinality({i \in DOMAIN insn.args : P(insn.args[i].class)})
is_imm_or_label(arg_type) == is_imm(arg_type) \/ is_label(arg_type)
TooManyMemOrImm(insn) ==
  CountArgs(insn, is_mem_op) > 1 \/ CountArgs(insn, is_imm_or_label) > 1

\* C8: the loop over the catalog never gets past a record with more than one
\* memory operand or more than one operand out of immediate and label.
C8_MalformedRecordNeverEmitted ==
  (pc = "generic" /\ argv.mode \in GEN_MODES)
    => \A i \in 1..(idx - 1) : ~TooManyMemOrImm(loaded_defs[i])

----------------------------------------------------------------------------
(* Properties of the loader                                                *)

\* the records of the definition file being loaded
Input == argv.files[pair].insns

NotSlash(tok) == tok # "/"
\* the alternatives of an operand class, in order
Alternatives(cls) == SelectSeq(cls, NotSlash)
\* the operand slots of a record that hold alternatives
SlashSlots(insn) == {i \in DOMAIN insn.args : Contains(insn.args[i].class, "/")}

\* one record per alternative of the slot, equal to insn in everything else
OnePerAlternative(insn, slot) ==
  [k \in 1..Len(Alternatives(insn.args[slot].class)) |->
     [insn EXCEPT !.args[slot].class = <<Alternatives(insn.args[slot].class)[k]>>]]

ExpandedByOperands(insn) ==
  IF SlashSlots(insn) = {} THEN <<insn>>
  ELSE OnePerAlternative(insn, CHOOSE slot \in SlashSlots(insn) : TRUE)

\* C5: operand expansion turns a record with one operand of k alternatives
\* into k records in the order of the alternatives, equal to the record but
\* for that slot, and a record without alternatives into itself; if no other
\* operand is a memory operand, each of the k records has at most one.
C5_OperandExpansion ==
  by_operands.ok =>
    /\ by_operands.val = Flatten([i \in DOMAIN Input |-> ExpandedByOperands(Input[i])])
    /\ \A i \in DOMAIN Input :
         (Cardinality(SlashSlots(Input[i])) = 1 /\ CountArgs(Input[i], is_mem_op) = 0)
           => \A k \in DOMAIN ExpandedByOperands(Input[i]) :
                CountArgs(ExpandedByOperands(Input[i])[k], is_mem_op) <= 1

\* 'Mem8/GeneralReg8' after another operand was expanded to two records
C5_TwoAlternativesExpanded ==
  /\ pc = "expand_encodings" /\ by_operands.ok
  /\ Len(Input) = 1 /\ Len(Input[1].args) = 2
  /\ Input[1].args[2].class = <<"Mem8", "/", "GeneralReg8">>
  /\ Len(by_operands.val) = 2
  /\ by_operands.val[1].args[2].class = <<"Mem8">>
  /\ by_operands.val[2].args[2].class = <<"GeneralReg8">>

\* the declaration forms a record carries
FormsOf(insn) ==
  {f \in {"stems", "encodings"} : Has(insn, f)}
  \cup (IF \A f \in {"name", "asm", "mnemo"} : Has(insn, f) THEN {"plain"} ELSE {})

\* C6: family expansion accepts the records of a file only if each of them
\* carries exactly one of the three declaration forms.
C6_OneFormOrAbort ==
  by_encodings.ok => \A i \in DOMAIN by_operands.val : Cardinality(FormsOf(by_operands.val[i])) = 1

\* C7: once operand expansion has run on a file in which some record has
\* more than one operand with alternatives, the run has aborted and there is
\* no catalog.
C7_TwoSlashOperandsAbort ==
  (pc \notin {"start", "expand_operands"}
     /\ \E i \in DOMAIN Input : Cardinality(SlashSlots(Input[i])) > 1)
    => pc = "aborted" /\ ~by_operands.ok /\ loaded_defs = <<>>

\* a well-formed record followed by one with two operands with alternatives
C7_SecondRecordAborted ==
  /\ pc = "aborted"
  /\ Len(Input) = 2
  /\ SlashSlots(Input[1]) = {}
  /\ SlashSlots(Input[2]) = {1, 2}

\* addressing modes of a name: none, or one of ADDR_MODES
NameModes == {<<>>} \cup {<<ADDR_MODES[i]>> : i \in DOMAIN ADDR_MODES}

\* the base of a name: the mnemonic without a trailing 'ByCl'
NameBase(asm) == IF asm # <<>> /\ asm[Len(asm)] = "ByCl" THEN SubSeq(asm, 1, Len(asm) - 1) ELSE asm

Named(cls) ==
  is_greg(cls) \/ is_implicit_reg(cls) \/ is_xreg(cls) \/ is_imm(cls) \/ is_mem_op(cls)
    \/ is_cond(cls) \/ is_label(cls)

\* the suffix of an operand class: FLAGS, condition codes and labels have none,
\* the other fixed registers have the one of a general register
Suffix(cls, addr_mode) ==
  CASE cls = <<"FLAGS">> \/ is_cond(cls) \/ is_label(cls) -> <<>>
    [] cls # <<"FLAGS">> /\ (is_greg(cls) \/ is_implicit_reg(cls)) -> <<"Reg">>
    [] is_xreg(cls) -> <<"XReg">>
    [] is_imm(cls) -> <<"Imm">>
    [] is_mem_op(cls) -> IF addr_mode = <<>> THEN <<"Op">> ELSE <<"Mem">> \o addr_mode
    [] OTHER -> <<>>

\* the suffix if no fixed register had one
SuffixWithoutFixed(cls, addr_mode) ==
  IF is_implicit_reg(cls) THEN <<>> ELSE Suffix(cls, addr_mode)

NameOf(insn, addr_mode, S(_, _)) ==
  NameBase(insn.asm) \o Flatten([i \in DOMAIN insn.args |-> S(insn.args[i].class, addr_mode)])

AllNamed(insn) == \A i \in DOMAIN insn.args : Named(insn.args[i].class)

\* records the loader has named: those expanded from stems or encodings
NamedByLoader(insn) == Truthy(insn, "stems") \/ Truthy(insn, "encodings")

\* C9 (as amended): the name of a record is its mnemonic without a trailing
\* 'ByCl', followed in operand order by 'Reg' for a general register and for
\* a fixed register other than FLAGS, 'XReg', 'Imm', and 'Op' or
\* 'Mem<AddrMode>'; FLAGS, condition codes and labels add nothing, any other
\* class is an error; the loader gives this name to a record of a family.
C9_NameOfRecord ==
  /\ \A i \in DOMAIN insns : \A addr_mode \in NameModes :
        Has(insns[i], "asm") =>
          get_mem_macro_name(insns[i], addr_mode) =
            IF AllNamed(insns[i]) THEN Ok(NameOf(insns[i], addr_mode, Suffix)) ELSE Raise
  /\ by_encodings.ok =>
        \A i \in DOMAIN by_encodings.val :
          NamedByLoader(by_encodings.val[i])
            => by_encodings.val[i].name = NameOf(by_encodings.val[i], <<>>, Suffix)

\* 'ShlByCl' of a general register and RCX was named ShlRegReg
C9_FixedRegisterNamed ==
  /\ pc = "sort"
  /\ \E i \in DOMAIN insns :
       /\ insns[i].asm = <<"Shl", "ByCl">>
       /\ ClassesOf(insns[i]) = << <<"GeneralReg8">>, <<"RCX">> >>
       /\ insns[i].name = <<"Shl", "Reg", "Reg">>
       /\ get_mem_macro_name(insns[i], <<"BaseDisp">>) = Ok(<<"Shl", "Reg", "Reg">>)

\* C9 (as stated): fixed registers, condition codes and labels add no suffix
\* to the name.
C9_FixedRegistersAddNoSuffix ==
  \A i \in DOMAIN insns : \A addr_mode \in NameModes :
    (Has(insns[i], "asm") /\ AllNamed(insns[i]))
      => get_mem_macro_name(insns[i], addr_mode)
           = Ok(NameOf(insns[i], addr_mode, SuffixWithoutFixed))

Loaded == pc \in {"open", "collect_names"}

\* the positions of the records of a list that are for the assembler
ForAsm(list) == {i \in DOMAIN list : ~(Has(list[i], "skip_asm") /\ list[i].skip_asm)}
\* the n-th smallest element of a set of numbers
Nth(K, n) == CHOOSE k \in K : Cardinality({j \in K : j < k}) = n - 1
\* the positions of the records of a mnemonic, in increasing order
PositionsOf(list, asm) ==
  [n \in 1..Cardinality({i \in DOMAIN list : list[i].asm = asm}) |->
     Nth({i \in DOMAIN list : list[i].asm = asm}, n)]
RecordsOf(list, asm) ==
  [n \in DOMAIN PositionsOf(list, asm) |-> list[PositionsOf(list, asm)[n]]]

\* C10: the loaded list is in non-decreasing order of mnemonic, the records
\* of one mnemonic are in the order they had after expansion, and the catalog
\* of the assembler is that list without its skip_asm records, in its order.
C10_SortedStableFiltered ==
  Loaded =>
    /\ \A i, j \in DOMAIN insns : i < j => ~StrLess(insns[j].asm, insns[i].asm)
    /\ Len(insns) = Len(by_encodings.val)
    /\ \A i \in DOMAIN insns :
         RecordsOf(insns, insns[i].asm) = RecordsOf(by_encodings.val, insns[i].asm)
    /\ Len(loaded_defs) = Cardinality(ForAsm(insns))
    /\ \A n \in DOMAIN loaded_defs : loaded_defs[n] = insns[Nth(ForAsm(insns), n)]

\* the sort moved records, kept two different records of one mnemonic in
\* their order, and the filter removed a record
C10_SortedAndFiltered ==
  /\ Loaded
  /\ insns # by_encodings.val
  /\ Len(loaded_defs) < Len(insns)
  /\ \E i \in 1..(Len(loaded_defs) - 1) :
       /\ loaded_defs[i].asm = loaded_defs[i + 1].asm
       /\ loaded_defs[i] # loaded_defs[i + 1]

----------------------------------------------------------------------------
(* Definition files for the shortcut synthesizer: one record with every    *)
(* operand list of up to MaxOperands operands and at most one immediate,   *)
(* followed by none, one or two of the records its guards could delegate  *)
(* to and of records that differ from those in one usage tag.              *)

MaxOperands == 3   \* operands of a record given to the generator

ShortcutArgs ==
  {Arg("GeneralReg32", "use_def"), Arg("GeneralReg", "use_def"), Arg("EAX", "use_def"),
   Arg("RCX", "use"), Arg("FLAGS", "def"), Imm("Imm8"), Arg("Imm8", "use"), Imm("Imm32")}

\* the operands of the records named with a suffix
SuffixArgs ==
  {Arg("GeneralReg32", "use_def"), Arg("EAX", "use_def"), Arg("FLAGS", "def"),
   Imm("Imm8"), Imm("Imm32")}

\* the operand lists over S with at most one immediate
OperandLists(S) ==
  {args \in SeqsOf(S, 1, MaxOperands) :
     Cardinality({i \in DOMAIN args : is_imm(args[i].class)}) <= 1}

\* a record with an encoding: the binary assembler gives it a body
Encoded(asm, args) == Plain(asm, asm, args) @@ Opcodes01

ShortcutRecords ==
  {Encoded(<<"Shl">>, args) : args \in OperandLists(ShortcutArgs)}
  \cup {Encoded(<<"Shl", suffix>>, args) :
          suffix \in {"Accumulator", "ByOne", "Imm8"}, args \in OperandLists(SuffixArgs)}

\* a record with each operand of class from replaced by the operand to
Replaced(args, from, to) ==
  [i \in DOMAIN args |-> IF args[i].class = <<from>> THEN to ELSE args[i]]

\* the form without the shift count
ByOneOf(insn) ==
  Encoded(insn.asm \o <<"ByOne">>, SelectSeq(insn.args, LAMBDA arg : arg.class # <<"Imm8">>))
\* the form with an 8-bit immediate
NarrowOf(insn) == Encoded(insn.asm \o <<"Imm8">>, Replaced(insn.args, "Imm32", Imm("Imm8")))
\* the same with a register operand that is only read
NarrowOtherUsage(insn) ==
  Encoded(insn.asm \o <<"Imm8">>,
          Replaced(Replaced(insn.args, "Imm32", Imm("Imm8")),
                   "GeneralReg32", Arg("GeneralReg32", "use")))
\* the form with the accumulator as its first operand
AccumulatorOf(insn) ==
  Encoded(insn.asm \o <<"Accumulator">>,
          <<[insn.args[1] EXCEPT !.class = <<"EAX">>]>> \o Tail(insn.args))
\* the form with an 8-bit immediate of an accumulator form
RegisterNarrowOf(insn) ==
  Encoded(DropLast(insn.asm, 1) \o <<"Imm8">>,
          Replaced(Replaced(insn.args, "Imm32", Imm("Imm8")),
                   "EAX", Arg("GeneralReg32", "use_def")))

Siblings(insn) ==
  (IF \E i \in DOMAIN insn.args : insn.args[i].class = <<"Imm8">>
     THEN {ByOneOf(insn)} ELSE {})
  \cup (IF \E i \in DOMAIN insn.args : insn.args[i].class = <<"Imm32">>
          THEN {NarrowOf(insn), NarrowOtherUsage(insn)} ELSE {})
  \cup (IF /\ \E i \in DOMAIN insn.args : insn.args[i].class = <<"Imm32">>
           /\ endswith(insn.asm, <<"Accumulator">>)
          THEN {RegisterNarrowOf(insn)} ELSE {})
  \cup (IF Len(insn.args) > 1 /\ startswith_GeneralReg(insn.args[1].class)
          THEN {AccumulatorOf(insn)} ELSE {})

ShortcutFiles(arch) ==
  UNION {{File(arch, <<insn>>)}
           \cup {File(arch, <<insn, a>>) : a \in Siblings(insn)}
           \cup {File(arch, <<insn, a, b>>) : a \in Siblings(insn), b \in Siblings(insn)} :
         insn \in ShortcutRecords}

ShortcutArgvs(mode) == {[mode |-> mode, files |-> <<file>>] : file \in ShortcutFiles(X86_64)}

\* the binary assembler on one x86 definition file
InitShortcut == InitOn(ShortcutArgvs("--binary-assembler"))

NextShortcut ==
  \/ CheckMode
  \/ ExpandOperands
  \/ ExpandEncodings
  \/ SortAndFilter
  \/ OpenOutput
  \/ GenGenericFunction
  \/ EndGeneric
  \/ GenMemoryFunctions
  \/ EndMemory

SpecShortcut == InitShortcut /\ [][NextShortcut]_vars

----------------------------------------------------------------------------
(* Definition files for the verifier assembler: one record with every      *)
(* operand list of up to MaxOperands operands over registers of each kind  *)
(* and usage, and the files of two records with one operand.               *)

VerifierArgs ==
  {Arg("GeneralReg32", usage) : usage \in {"use", "def", "use_def", "def_early_clobber"}}
  \cup {Arg("XmmReg", "use"), Arg("XmmReg", "def"), Arg("FLAGS", "use"), Arg("FLAGS", "def"),
        Arg("RCX", "use"), Imm("Imm8")}

VerifierRecords == {Plain(<<"Add">>, <<"Add">>, args) : args \in OperandLists(VerifierArgs)}

VerifierFiles(x86) ==
  {File(x86, <<insn>>) : insn \in VerifierRecords}
  \cup {File(arch, <<Plain(<<"Add">>, <<"Add">>, <<a>>) @@ [feature |-> <<"SSE3">>],
                     Plain(<<"Test">>, <<"Test">>, <<b>>)>>) :
          arch \in {x86, RV64}, a \in VerifierArgs, b \in VerifierArgs}

VerifierArgvs(mode) == {[mode |-> mode, files |-> <<file>>] : file \in VerifierFiles(X86_64)}

\* the verifier assembler on one definition file
InitVerifier == InitOn(VerifierArgvs("--verifier-assembler"))

NextVerifier ==
  \/ CheckMode
  \/ ExpandOperands
  \/ ExpandEncodings
  \/ SortAndFilter
  \/ OpenOutput
  \/ GenGenericFunction
  \/ EndGeneric

SpecVerifier == InitVerifier /\ [][NextVerifier]_vars

----------------------------------------------------------------------------
(* Properties of the generated functions                                   *)

\* the operands of a record that are not fixed registers, in operand order
ExplicitOperands(insn) == SelectSeq(insn.args, LAMBDA arg : ~is_implicit_reg(arg.class))

\* the parameter of the n-th explicit operand (n from 0) of a record
ParameterOf(insn, n) ==
  <<"[[maybe_unused]]">>
    \o _get_arg_type_name(ExplicitOperands(insn)[n + 1], insn_type_of(insn)).val
    \o <<ArgName(n)>>

\* the parameters of a parameter list
ParametersIn(params) == IF params = <<>> THEN <<>> ELSE split(params, ",")

\* C11: the parameter list of a record whose operand classes are all known
\* has exactly one parameter per operand that is not a fixed register, in
\* operand order, named arg0, arg1, ... with consecutive indices; fixed
\* registers, FLAGS among them, produce none.  The function printed for the
\* first record of the catalog has that parameter list.
C11_OneParameterPerExplicitOperand ==
  /\ \A i \in DOMAIN loaded_defs :
       /\ _get_params(loaded_defs[i], FALSE).ok
       /\ Len(ParametersIn(_get_params(loaded_defs[i], FALSE).val))
            = Len(ExplicitOperands(loaded_defs[i]))
       /\ \A n \in DOMAIN ExplicitOperands(loaded_defs[i]) :
            ParametersIn(_get_params(loaded_defs[i], FALSE).val)[n]
              = ParameterOf(loaded_defs[i], n - 1)
  /\ pc \in {"generic", "memory"} /\ fs[pair].text # <<>> =>
       fs[pair].text[1] =
         <<"constexpr void">> \o loaded_defs[1].asm \o <<"(">>
           \o Join(<<",">>, [n \in DOMAIN ExplicitOperands(loaded_defs[1]) |->
                               ParameterOf(loaded_defs[1], n - 1)])
           \o <<") {">>

\* a record with a register, the fixed register RCX and FLAGS was given a
\* function with the one parameter 'Register arg0'
C11_FixedRegistersSkipped ==
  /\ pc = "generic"
  /\ idx > 1
  /\ ClassesOf(loaded_defs[1]) = << <<"GeneralReg32">>, <<"RCX">>, <<"FLAGS">> >>
  /\ fs[pair].text[1] = <<"constexpr void", "Shl", "(", "[[maybe_unused]]", "Register", "arg0", ") {">>


\* the first function of the output file, and nothing else, has been printed:
\* the generator is past the first record of the catalog
FirstFunctionPrinted == pc = "generic" /\ idx = 2

\* the first line of a guard of each family
IsShiftGuard(line) == line # <<>> /\ line[1] = "if ("
IsNarrowGuard(line) == line # <<>> /\ line[1] = "if (IsInRange<int8_t>("
IsAccumulatorGuard(line) == line # <<>> /\ line[1] = "if (DerivedAssemblerType::IsAccumulator("
Count(lines, P(_)) == Cardinality({k \in DOMAIN lines : P(lines[k])})

IsWide(cls) == cls \in {<<"Imm16">>, <<"Imm32">>}
\* a record with exactly one Imm16 or Imm32 operand, not named '...Accumulator'
HasWideImmediate(insn) ==
  /\ Cardinality({i \in DOMAIN insn.args : IsWide(insn.args[i].class)}) = 1
  /\ ~endswith(insn.asm, <<"Accumulator">>)

\* the operands of a record with its wide immediate replaced by a bare Imm8
Narrowed(args) ==
  [i \in DOMAIN args |-> IF IsWide(args[i].class) THEN [class |-> <<"Imm8">>] ELSE args[i]]

\* the catalog records named '<mnemonic>Imm8' with exactly these operands,
\* class and usage
NarrowSiblings(insn, catalog) ==
  {k \in DOMAIN catalog :
     catalog[k].asm = insn.asm \o <<"Imm8">> /\ catalog[k].args = Narrowed(insn.args)}
\* the same by the classes of the operands alone
NarrowSiblingsByClass(insn, catalog) ==
  {k \in DOMAIN catalog :
     /\ catalog[k].asm = insn.asm \o <<"Imm8">>
     /\ ClassesOf(catalog[k]) = ClassesOf([args |-> Narrowed(insn.args)])}

\* C12 (as amended): for a record with exactly one Imm16 or Imm32 operand
\* whose mnemonic does not end in 'Accumulator', the synthesizer emits one
\* narrow-immediate guard for each catalog record whose mnemonic is the
\* record's followed by 'Imm8' and whose operands are the record's, class
\* and usage, with the immediate replaced by a bare Imm8 operand; it emits
\* none when the catalog has no such record.
C12_GuardPerExactNarrowSibling ==
  /\ \A i \in DOMAIN loaded_defs :
       HasWideImmediate(loaded_defs[i]) =>
         Count(_gen_emit_shortcut(loaded_defs[i], loaded_defs).lines, IsNarrowGuard)
           = Cardinality(NarrowSiblings(loaded_defs[i], loaded_defs))
  /\ FirstFunctionPrinted /\ HasWideImmediate(loaded_defs[1]) =>
       Count(fs[pair].text, IsNarrowGuard)
         = Cardinality(NarrowSiblings(loaded_defs[1], loaded_defs))

\* a function was printed with one guard while the catalog holds, after the
\* record, its 8-bit form and a record that differs from that form in a usage
C12_GuardForExactSiblingOnly ==
  /\ FirstFunctionPrinted
  /\ HasWideImmediate(loaded_defs[1])
  /\ Count(fs[pair].text, IsNarrowGuard) = 1
  /\ Cardinality(NarrowSiblingsByClass(loaded_defs[1], loaded_defs)) = 2

\* C12 as stated: the guard is emitted exactly when the catalog contains a
\* record named '<mnemonic>Imm8' whose list of operand classes is the
\* record's with the immediate class replaced by Imm8, and then exactly once
C12_GuardIffSiblingByClass ==
  FirstFunctionPrinted /\ HasWideImmediate(loaded_defs[1]) =>
    Count(fs[pair].text, IsNarrowGuard)
      = IF NarrowSiblingsByClass(loaded_defs[1], loaded_defs) # {} THEN 1 ELSE 0


\* the index among the parameters of the operand at position i of args
ParameterIndex(args, i) == Cardinality({j \in 1..(i - 1) : ~is_implicit_reg(args[j].class)})
\* the index among the parameters of the only operand of a record whose class satisfies P
ParameterWith(insn, P(_)) ==
  ParameterIndex(insn.args, CHOOSE i \in DOMAIN insn.args : P(insn.args[i].class))
\* the number of parameters of a record
ParameterCount(insn) == Len(ExplicitOperands(insn))

IsImm8(cls) == cls = <<"Imm8">>
\* a record with exactly one Imm8 operand
HasShiftCount(insn) == Cardinality({i \in DOMAIN insn.args : IsImm8(insn.args[i].class)}) = 1

\* 'if (argK == 1) return <mnemonic>ByOne(...);' with every parameter but
\* argK under its own name, in order
ShiftGuard(insn, k) ==
  <<"if (", ArgName(k), "== 1) return">> \o insn.asm \o <<"ByOne", "(">>
    \o Join(<<",">>, [j \in 1..(ParameterCount(insn) - 1) |->
                        <<ArgName(IF j - 1 < k THEN j - 1 ELSE j)>>])
    \o <<");">>

\* C13: the shift-by-one guard compares with 1 the parameter that carries the
\* Imm8 operand, that is its index among the parameters, and delegates to
\* '<mnemonic>ByOne' with every other parameter under its own name, in
\* order, wherever the Imm8 operand stands and fixed registers before it or not.
C13_ShiftGuardNamesItsParameters ==
  FirstFunctionPrinted /\ HasShiftCount(loaded_defs[1]) =>
    \A k \in DOMAIN fs[pair].text :
      IsShiftGuard(fs[pair].text[k]) =>
        fs[pair].text[k] = ShiftGuard(loaded_defs[1], ParameterWith(loaded_defs[1], IsImm8))

\* the two lines of a narrow-immediate guard that tests and casts argK
NarrowTest(k) == <<"if (IsInRange<int8_t>(", ArgName(k), ")) {">>
NarrowReturn(insn, k) ==
  <<"return">> \o insn.asm \o <<"Imm8", "(">>
    \o Join(<<",">>, [n \in 1..ParameterCount(insn) |->
                        IF n - 1 = k THEN <<"static_cast<int8_t>(", ArgName(k), ")">>
                                     ELSE <<ArgName(n - 1)>>])
    \o <<");">>

\* C14: the narrow-immediate guard applies its range test and its cast to
\* int8_t to the parameter that carries the Imm16 or Imm32 operand and
\* forwards the other parameters unchanged, wherever the immediate stands.
C14_NarrowGuardTestsTheImmediate ==
  FirstFunctionPrinted /\ HasWideImmediate(loaded_defs[1]) =>
    \A k \in DOMAIN fs[pair].text :
      IsNarrowGuard(fs[pair].text[k]) =>
        /\ fs[pair].text[k] = NarrowTest(ParameterWith(loaded_defs[1], IsWide))
        /\ fs[pair].text[k + 1]
             = NarrowReturn(loaded_defs[1], ParameterWith(loaded_defs[1], IsWide))


IsHeader(line) == line # <<>> /\ line[1] = "constexpr void"
\* the generator is done with the first record of the catalog and with no
\* other: it printed its function, or it aborted while printing it
FirstFunctionEnded ==
  \/ FirstFunctionPrinted
  \/ pc = "aborted" /\ idx = 1 /\ Count(fs[pair].text, IsHeader) = 1

\* a record with more than one operand whose first operand is a general
\* register of a width
HasWidthRegisterFirst(insn) ==
  /\ Len(insn.args) > 1
  /\ insn.args[1].class \in {<<"GeneralReg8">>, <<"GeneralReg16">>,
                             <<"GeneralReg32">>, <<"GeneralReg64">>}

\* the fixed accumulator of the width of a general register class
AccumulatorFor(cls) ==
  CASE cls = <<"GeneralReg8">> -> <<"AL">> [] cls = <<"GeneralReg16">> -> <<"AX">>
    [] cls = <<"GeneralReg32">> -> <<"EAX">> [] cls = <<"GeneralReg64">> -> <<"RAX">>

\* the catalog records named '<mnemonic>Accumulator' whose operands are the
\* record's with the first replaced by the accumulator, with the same usage
AccumulatorSiblings(insn, catalog) ==
  {k \in DOMAIN catalog :
     /\ catalog[k].asm = insn.asm \o <<"Accumulator">>
     /\ catalog[k].args
          = <<[class |-> AccumulatorFor(insn.args[1].class), usage |-> insn.args[1].usage]>>
              \o Tail(insn.args)}

AccumulatorReturn(insn) ==
  <<"return">> \o insn.asm \o <<"Accumulator", "(">>
    \o Join(<<",">>, [n \in 1..(ParameterCount(insn) - 1) |-> <<ArgName(n)>>])
    \o <<");">>

\* C15: for a record with more than one operand whose first operand is
\* GeneralReg8, 16, 32 or 64, an accumulator guard is emitted exactly when
\* the catalog contains a record named '<mnemonic>Accumulator' whose operands
\* are the record's with the first replaced by AL, AX, EAX or RAX of that
\* width, with the same usage; the guard tests IsAccumulator(arg0) and
\* delegates with arg1, ..., arg(n-1), in order.
C15_AccumulatorGuardIffSibling ==
  FirstFunctionEnded /\ HasWidthRegisterFirst(loaded_defs[1]) =>
    /\ Count(fs[pair].text, IsAccumulatorGuard) > 0
         <=> AccumulatorSiblings(loaded_defs[1], loaded_defs) # {}
    /\ \A k \in DOMAIN fs[pair].text :
         IsAccumulatorGuard(fs[pair].text[k]) =>
           /\ fs[pair].text[k] = <<"if (DerivedAssemblerType::IsAccumulator(", "arg0", ")) {">>
           /\ fs[pair].text[k + 1] = AccumulatorReturn(loaded_defs[1])

\* C16: the synthesizer never aborts the run on a record that satisfies the
\* invariants of the data model, whether its siblings are in the catalog or
\* not: not for a first operand of class GeneralReg, not for an Imm8 operand
\* with a usage tag, not for a mnemonic that ends in 'Accumulator'.
C16_ShortcutNeverAborts ==
  ~(/\ pc = "aborted"
    /\ fs[pair].opened
    /\ idx \in DOMAIN loaded_defs
    /\ ~_gen_emit_shortcut(loaded_defs[idx], loaded_defs).ok)

IsSpecialization(insn) ==
  \E suffix \in {"ByOne", "Imm8", "Accumulator"} : endswith(insn.asm, <<suffix>>)
IsGuard(line) == IsShiftGuard(line) \/ IsNarrowGuard(line) \/ IsAccumulatorGuard(line)

\* C17: a record whose mnemonic ends in 'ByOne', 'Imm8' or 'Accumulator'
\* never receives a guard: the synthesizer does not take it as the generic
\* side of a delegation.
C17_SpecializationHasNoGuard ==
  FirstFunctionPrinted /\ IsSpecialization(loaded_defs[1]) =>
    Count(fs[pair].text, IsGuard) = 0


----------------------------------------------------------------------------
(* Properties of the verifier assembler                                    *)

IsRegisterUse(line) == line # <<>> /\ line[1] = "RegisterUse("
IsRegisterDef(line) == line # <<>> /\ line[1] = "RegisterDef("

\* C18: in the output of the verifier assembler every RegisterUse line of a
\* function body comes before every RegisterDef line of the same body: a
\* RegisterDef line is followed by a RegisterUse line only after the header
\* of another function.
C18_UsesBeforeDefs ==
  \A f \in DOMAIN fs :
    \A i, j \in DOMAIN fs[f].text :
      i < j /\ IsRegisterDef(fs[f].text[i]) /\ IsRegisterUse(fs[f].text[j]) =>
        \E h \in (i + 1)..j : IsHeader(fs[f].text[h])

\* a body was printed in which the register that is read is the second
\* parameter and the register that is written is the first: the line of the
\* read comes first
C18_ReadOfLaterOperandFirst ==
  /\ pc = "done"
  /\ \E k \in DOMAIN fs[1].text :
       /\ fs[1].text[k] = <<"RegisterUse(", "arg1", ");">>
       /\ k + 1 \in DOMAIN fs[1].text
       /\ fs[1].text[k + 1] = <<"RegisterDef(", "arg0", ");">>

IsRegisterClass(cls) == is_greg(cls) \/ is_xreg(cls) \/ is_yreg(cls) \/ is_freg(cls)

\* C19: in verifier mode on x86 every operand that is a register and not a
\* fixed one, general-purpose or vector or float, with whichever of the
\* usages use, def, use_def and def_early_clobber, has at least one
\* RegisterUse or RegisterDef line that names the index of its parameter.
C19_EveryRegisterHasAnEffectLine ==
  FirstFunctionPrinted /\ is_x86(argv.files[pair].arch) =>
    \A n \in DOMAIN ExplicitOperands(loaded_defs[1]) :
      /\ IsRegisterClass(ExplicitOperands(loaded_defs[1])[n].class)
      /\ Has(ExplicitOperands(loaded_defs[1])[n], "usage")
      /\ ExplicitOperands(loaded_defs[1])[n].usage
           \in {"use", "def", "use_def", "def_early_clobber"}
      => \E k \in DOMAIN fs[pair].text :
           fs[pair].text[k] \in {<<"RegisterUse(", ArgName(n - 1), ");">>,
                                 <<"RegisterDef(", ArgName(n - 1), ");">>}

IsSetDefinesFLAGS(line) == line = <<"SetDefinesFLAGS();">>
\* a record with a FLAGS operand that is written
DefinesFLAGS(insn) ==
  \E i \in DOMAIN insn.args :
    /\ insn.args[i].class = <<"FLAGS">>
    /\ Has(insn.args[i], "usage")
    /\ insn.args[i].usage \in {"def", "use_def", "def_early_clobber"}

\* C20: the verifier assembler prints SetDefinesFLAGS() exactly once in the
\* function of a record with a FLAGS operand whose usage is def, use_def or
\* def_early_clobber, and not at all in the function of any other record:
\* not when FLAGS is only read, not when there is no FLAGS operand.
C20_SetDefinesFLAGSIffWritten ==
  FirstFunctionPrinted =>
    Count(fs[pair].text, IsSetDefinesFLAGS) = IF DefinesFLAGS(loaded_defs[1]) THEN 1 ELSE 0


----------------------------------------------------------------------------
(* The overload that takes a label                                         *)

\* the header of the overload that takes a LabelOperand for the memory operand
IsLabelOverload(line) == Contains(line, "const LabelOperand")

HasOpcodes(insn) == Has(insn, "opcodes") \/ Has(insn, "opcode")

\* C21: in binary mode the overload that takes a label in place of the memory
\* operand is printed for a record exactly when the record has opcodes, has a
\* memory operand and the architecture is the 64-bit one; never for 'x86_32'.
C21_LabelOverloadOnlyFor64Bit ==
  (FirstFunctionPrinted /\ argv.mode = "--binary-assembler") =>
    ((Count(fs[pair].text, IsLabelOverload) > 0)
       <=> (/\ HasOpcodes(loaded_defs[1])
            /\ _contains_mem(loaded_defs[1])
            /\ argv.files[pair].arch = X86_64))


----------------------------------------------------------------------------
(* The catalog during emission                                             *)

\* C24: emission leaves the catalog unchanged: while and after
\* _gen_generic_functions_h and _gen_memory_function_specializations_h run,
\* every record of the catalog has exactly the fields and values it had when
\* the load finished.
C24_EmissionLeavesCatalogUnchanged ==
  pc \in {"generic", "memory"} => loaded_defs = filter_for_asm(insns)


----------------------------------------------------------------------------
(* The order of the guards in a function body                              *)

IsEmit(line) == line # <<>> /\ line[1] = "Emit"

\* the place of a guard's family in the order: 0 for a line that opens no guard
GuardRank(line) ==
  IF IsShiftGuard(line) THEN 1 ELSE IF IsNarrowGuard(line) THEN 2
  ELSE IF IsAccumulatorGuard(line) THEN 3 ELSE 0

GuardsInOrder(text) ==
  \A i, j \in DOMAIN text :
    (i < j /\ GuardRank(text[i]) > 0 /\ GuardRank(text[j]) > 0)
      => GuardRank(text[i]) <= GuardRank(text[j])

GuardsBeforeEmit(text) ==
  \A i, j \in DOMAIN text : (IsGuard(text[i]) /\ IsEmit(text[j])) => i < j

\* the catalog records named '<mnemonic>ByOne' with the record's operands
\* but the Imm8 one
ShiftSiblings(insn, catalog) ==
  {k \in DOMAIN catalog :
     /\ catalog[k].asm = insn.asm \o <<"ByOne">>
     /\ catalog[k].args = SelectSeq(insn.args, LAMBDA arg : ~IsImm8(arg.class))}

\* the general register of the width of an accumulator
RegisterFor(cls) ==
  CASE cls = <<"AX">> -> <<"GeneralReg16">> [] cls = <<"EAX">> -> <<"GeneralReg32">>
    [] cls = <<"RAX">> -> <<"GeneralReg64">>

\* for a record named '<mnemonic>Accumulator' (accumulator, wide immediate,
\* FLAGS): the catalog records named '<mnemonic>Imm8' that take a general
\* register of the accumulator's width, an Imm8 and FLAGS
AccumulatorNarrowSiblings(insn, catalog) ==
  {k \in DOMAIN catalog :
     /\ catalog[k].asm = DropLast(insn.asm, 1) \o <<"Imm8">>
     /\ catalog[k].args = <<[class |-> RegisterFor(insn.args[1].class),
                             usage |-> insn.args[1].usage],
                            [class |-> <<"Imm8">>],
                            [class |-> <<"FLAGS">>, usage |-> insn.args[3].usage]>>}

QualifiesForShift(insn, catalog) ==
  HasShiftCount(insn) /\ ShiftSiblings(insn, catalog) # {}
QualifiesForNarrow(insn, catalog) ==
  \/ HasWideImmediate(insn) /\ NarrowSiblings(insn, catalog) # {}
  \/ /\ Cardinality({i \in DOMAIN insn.args : IsWide(insn.args[i].class)}) = 1
     /\ endswith(insn.asm, <<"Accumulator">>)
     /\ AccumulatorNarrowSiblings(insn, catalog) # {}
QualifiesForAccumulator(insn, catalog) ==
  HasWidthRegisterFirst(insn) /\ AccumulatorSiblings(insn, catalog) # {}

HasImmediate(insn) == \E i \in DOMAIN insn.args : is_imm(insn.args[i].class)

----------------------------------------------------------------------------
(* The delegation relation of a catalog                                    *)

\* the function of record a has a guard that calls record b: the synthesizer,
\* run for a on the catalog that holds b alone, prints a guard
Delegates(catalog, a, b) == _gen_emit_shortcut(catalog[a], <<catalog[b]>>).lines # <<>>

DelegationPairs(catalog) ==
  {p \in (DOMAIN catalog) \X (DOMAIN catalog) : Delegates(catalog, p[1], p[2])}

RECURSIVE DelegatesIn(_, _, _, _)
\* a chain of n delegations leads from record a to record b
DelegatesIn(catalog, a, b, n) ==
  IF n = 1 THEN Delegates(catalog, a, b)
  ELSE \E c \in DOMAIN catalog : Delegates(catalog, a, c) /\ DelegatesIn(catalog, c, b, n - 1)

HasDelegationCycle(catalog) ==
  \E a \in DOMAIN catalog : \E n \in 1..Len(catalog) : DelegatesIn(catalog, a, a, n)

\* the catalog is loaded and nothing is printed yet
CatalogLoaded == pc = "open"
\* every function of the catalog has been printed
GenericFunctionsPrinted == pc = "memory" /\ idx = 1

\* C30: the delegation relation that the emitted guards make (record A has a
\* guard that calls record B) has no cycle: no chain of shift-by-one,
\* narrow-immediate and accumulator guards leads from a record back to itself.
\* Once the functions are printed, the file has one guard for each pair of
\* the relation.
C30_DelegationHasNoCycle ==
  /\ CatalogLoaded => ~HasDelegationCycle(loaded_defs)
  /\ GenericFunctionsPrinted =>
       Count(fs[pair].text, IsGuard) = Cardinality(DelegationPairs(loaded_defs))

\* a catalog with a chain of two delegations: the generic record calls its
\* accumulator form, which calls the narrow form
C30_ChainOfTwoDelegations ==
  /\ GenericFunctionsPrinted
  /\ \E a, b, c \in DOMAIN loaded_defs :
       /\ Delegates(loaded_defs, a, b) /\ Delegates(loaded_defs, b, c)
       /\ Delegates(loaded_defs, a, c)


----------------------------------------------------------------------------
(* The two expansions applied again, and in the other order                *)

\* the second expansion applied to what the first returned
EncodingsAfter(r) == IF r.ok THEN _expand_insn_by_encodings(r.val) ELSE Raise
OperandsAfter(r) == IF r.ok THEN _expand_insns_by_operands(r.val) ELSE Raise

\* the order of load_asm_defs, and the other one
OperandsThenEncodings(list) == EncodingsAfter(_expand_insns_by_operands(list))
EncodingsThenOperands(list) == OperandsAfter(_expand_insn_by_encodings(list))

\* both expansions have returned, and the list is not sorted yet
Expanded == pc = "sort"

SameOrRaise(list, r) == ~r.ok \/ r.val = list

\* C25: both expansions, applied in the order of load_asm_defs to the list
\* they returned, return the same list or abort; they never return a list
\* with more, fewer or other records.
C25_ReexpansionIsNoOpOrError ==
  Expanded => SameOrRaise(insns, OperandsThenEncodings(insns))

IsFamily(insn) == Truthy(insn, "encodings") \/ Truthy(insn, "stems")

\* the alternatives of an operand of a plain record were expanded, and
\* expanding the records again returns them as they are
C25_ExpandedRecordsReexpanded ==
  /\ Expanded
  /\ Len(insns) > Len(Input)
  /\ ~IsFamily(Input[1]) /\ SlashSlots(Input[1]) # {}
  /\ OperandsThenEncodings(insns) = Ok(insns)

\* the asm, name and operand classes of the records of a list
ExpandedSet(list) == {<<list[i].asm, list[i].name, ClassesOf(list[i])>> : i \in DOMAIN list}

SameSet(list, r) == r.ok /\ ExpandedSet(r.val) = ExpandedSet(list)

\* a family (stems or encodings) with an operand that has alternatives
FamilyWithSlash(list) == \E i \in DOMAIN list : IsFamily(list[i]) /\ SlashSlots(list[i]) # {}

\* C26 as stated: for every input that load_asm_defs accepts, the expansion
\* of the families first and of the operands second returns the same set of
\* records (asm, name, operand classes) as the order of load_asm_defs, also
\* for a family with an operand that has alternatives.
C26_ExpansionsCommute ==
  Expanded => SameSet(insns, EncodingsThenOperands(Input))

\* C26, amended: for every input that load_asm_defs accepts in which no
\* stems or encodings record has an operand with alternatives, the other
\* order returns the same set of records; for an input with such a record
\* the other order aborts.
C26_ExpansionsCommuteUnlessFamilyHasAlternatives ==
  Expanded =>
    IF FamilyWithSlash(Input) THEN ~EncodingsThenOperands(Input).ok
    ELSE SameSet(insns, EncodingsThenOperands(Input))

\* a family with alternatives was loaded: one record per stem and alternative
C26_FamilyWithAlternativesLoaded ==
  /\ Expanded
  /\ FamilyWithSlash(Input)
  /\ Len(insns) >= 4
  /\ ~EncodingsThenOperands(Input).ok


----------------------------------------------------------------------------
(* berberis_gen_asm_x86.py: the binary emitter of the x86 generator.       *)

\* the table of berberis_gen_asm_x86.py: the classes of the table of
\* gen_asm.py that it has, with the same values
x86_ARGUMENT_FORMATS_TO_SIZES(cls) ==
  IF cls \in {<<"X87Reg">>, <<"Mem">>, <<"MemX87">>, <<"MemX8716">>, <<"MemX8732">>,
              <<"MemX8764">>, <<"MemX8780">>, <<"RegX87">>, <<"YmmReg">>,
              <<"VecMem256">>, <<"VecReg256">>}
    THEN Raise
    ELSE _ARGUMENT_FORMATS_TO_SIZES(cls)

_ARGUMENT_FORMATS_TO_SIZES_X87(cls) ==
  IF cls \in {<<"Mem16">>, <<"Mem32">>, <<"Mem64">>} THEN Ok(<<"Memory", "X87">>) ELSE Raise

HexValue(c) ==
  CASE c = "0" -> 0 [] c = "1" -> 1 [] c = "2" -> 2 [] c = "3" -> 3 [] c = "4" -> 4
    [] c = "5" -> 5 [] c = "6" -> 6 [] c = "7" -> 7 [] c = "8" -> 8 [] c = "9" -> 9
    [] c \in {"a", "A"} -> 10 [] c \in {"b", "B"} -> 11 [] c \in {"c", "C"} -> 12
    [] c \in {"d", "D"} -> 13 [] c \in {"e", "E"} -> 14 [] c \in {"f", "F"} -> 15

RECURSIVE int16_of(_)
int16_of(s) == IF s = <<>> THEN 0 ELSE int16_of(DropLast(s, 1)) * 16 + HexValue(s[Len(s)])

\* int(opcode, 16): Raise (ValueError) for a string that is not hexadecimal
int16(opcode) == IF opcode # <<>> /\ AllHex(opcode) THEN Ok(int16_of(opcode)) ELSE Raise

LowerHexDigits == <<"0", "1", "2", "3", "4", "5", "6", "7", "8", "9", "a", "b", "c", "d", "e", "f">>

RECURSIVE hex_of(_)
hex_of(n) ==
  IF n < 16 THEN <<LowerHexDigits[n + 1]>> ELSE hex_of(n \div 16) \o <<LowerHexDigits[(n % 16) + 1]>>

\* '0x%02x' % n
format_0x02x(n) == <<"0x">> \o (IF n < 16 THEN <<"0">> ELSE <<>>) \o hex_of(n)

_is_x87_opcode(opcode) == opcode >= 216 /\ opcode <= 223

\* the table of one operand: _is_x87_opcode(int(insn['opcodes'][0], 16)) decides
x86_size_of(insn, cls) ==
  IF insn.opcodes = <<>> \/ ~int16(insn.opcodes[1]).ok THEN Raise
  ELSE IF _is_x87_opcode(int16(insn.opcodes[1]).val) THEN _ARGUMENT_FORMATS_TO_SIZES_X87(cls)
  ELSE x86_ARGUMENT_FORMATS_TO_SIZES(cls)

RECURSIVE x86_emit_args_from(_, _, _, _)
\* the loop of _gen_emit_instruction: the list of operand strings, or Raise
x86_emit_args_from(insn, i, arg_count, result) ==
  IF i > Len(insn.args) THEN Ok(result)
  ELSE IF is_implicit_reg(insn.args[i].class)
    THEN x86_emit_args_from(insn, i + 1, arg_count, result)
  ELSE IF ~x86_size_of(insn, insn.args[i].class).ok THEN Raise
  ELSE x86_emit_args_from(insn, i + 1, arg_count + 1,
         Append(result, x86_size_of(insn, insn.args[i].class).val
                          \o <<"(", ArgName(arg_count), ")">>))

\* insn.get(flag, False)
Flag(insn, flag) == Has(insn, flag) /\ insn[flag]

\* result[...] = result[order[1]], result[order[2]], ... when the flag is
\* set: Raise (IndexError) for a list that is too short
permuted(r, set, order) ==
  IF ~r.ok \/ ~set THEN r
  ELSE IF Len(r.val) < Len(order) THEN Raise
  ELSE Ok([k \in DOMAIN r.val |-> IF k <= Len(order) THEN r.val[order[k]] ELSE r.val[k]])

\* the order flags but reg_to_rm
order_flags_ignoring_reg_to_rm(insn, r) ==
  permuted(permuted(permuted(permuted(r,
    Flag(insn, "rm_to_vex"), <<2, 1>>),
    Flag(insn, "vex_imm_rm_to_reg"), <<1, 4, 2, 3>>),
    Flag(insn, "vex_rm_imm_to_reg"), <<1, 3, 2, 4>>),
    Flag(insn, "vex_rm_to_reg"), <<1, 3, 2>>)

\* the five order flags, one after the other
order_flags(insn, r) ==
  permuted(permuted(permuted(permuted(permuted(r,
    Flag(insn, "reg_to_rm"), <<2, 1>>),
    Flag(insn, "rm_to_vex"), <<2, 1>>),
    Flag(insn, "vex_imm_rm_to_reg"), <<1, 4, 2, 3>>),
    Flag(insn, "vex_rm_imm_to_reg"), <<1, 3, 2, 4>>),
    Flag(insn, "vex_rm_to_reg"), <<1, 3, 2>>)

\* the line printed for the opcodes and the operand strings
x86_emit_line(opcodes, result, rip_operand) ==
  IF ~opcodes.ok THEN Raised(<<>>)
  ELSE Printed(<< <<"EmitInstruction<Opcodes<">>
                    \o Join(<<",">>, [k \in DOMAIN opcodes.val |-> format_0x02x(opcodes.val[k])])
                    \o <<">>(">>
                    \o Join(<<",">>, IF rip_operand
                                       THEN [k \in DOMAIN result |-> replace(result[k], "Memory", "Label")]
                                       ELSE result)
                    \o <<");">> >>)

\* _gen_emit_instruction(f, insn, rip_operand) of berberis_gen_asm_x86.py
x86_gen_emit_instruction(insn, rip_operand) ==
  IF ~order_flags(insn, x86_emit_args_from(insn, 1, 0, <<>>)).ok THEN Raised(<<>>)
  ELSE x86_emit_line(Collect([k \in DOMAIN insn.opcodes |-> int16(insn.opcodes[k])]),
                     order_flags(insn, x86_emit_args_from(insn, 1, 0, <<>>)).val,
                     rip_operand)

\* _gen_generic_functions_h of berberis_gen_asm_x86.py, lines 125 and 130-135:
\* the calls of _gen_emit_instruction for one record with opcodes, the
\* second one for a record with a memory operand
X86EmitInstruction ==
  /\ pc = "x86_emit"
  /\ idx <= Len(loaded_defs)
  /\ \E r \in {Then(x86_gen_emit_instruction(loaded_defs[idx], FALSE),
                    IF _contains_mem(loaded_defs[idx])
                      THEN x86_gen_emit_instruction(loaded_defs[idx], TRUE) ELSE NoLines)} :
       /\ fs' = [fs EXCEPT ![pair].text = @ \o r.lines]
       /\ idx' = IF r.ok THEN idx + 1 ELSE idx
       /\ pc' = IF r.ok THEN "x86_emit" ELSE "aborted"
  /\ UNCHANGED <<lir_vars, argv, pair, insns, by_operands, by_encodings, loaded_defs, template_names,
                 instruction_names, run, prev_fs>>

\* The records given to the emitter: every operand list of up to MaxOperands
\* operands with at most one immediate and one memory operand, and some of
\* four parameters; an opcode of the x87 range or not; and the order flags
\* alone and in pairs.
EmitArgs == {Arg("GeneralReg32", "use_def"), Arg("XmmReg", "use"), Arg("Mem32", "use"),
             Imm("Imm8"), Arg("EAX", "use")}

FourOperands ==
  {<<Arg("XmmReg", "def"), Arg("XmmReg", "use"), Arg("Mem32", "use"), Imm("Imm8")>>,
   <<Arg("XmmReg", "def"), Arg("EAX", "use"), Arg("XmmReg", "use"), Arg("Mem32", "use"),
     Imm("Imm8")>>}

AtMostOneMemory(lists) ==
  {args \in lists : Cardinality({i \in DOMAIN args : is_mem_op(args[i].class)}) <= 1}

OrderFlags ==
  {<<>>, [reg_to_rm |-> TRUE], [reg_to_rm |-> FALSE], [rm_to_vex |-> TRUE],
   [reg_to_rm |-> TRUE, rm_to_vex |-> TRUE], [vex_rm_to_reg |-> TRUE],
   [reg_to_rm |-> TRUE, vex_rm_to_reg |-> TRUE],
   [vex_imm_rm_to_reg |-> TRUE], [vex_rm_imm_to_reg |-> TRUE]}

EmitRecords(opcodes) ==
  {Update(Plain(<<"Add">>, <<"Add">>, args) @@ [opcodes |-> o], flags) :
     args \in {<<>>} \cup AtMostOneMemory(OperandLists(EmitArgs)) \cup FourOperands,
     o \in opcodes, flags \in OrderFlags}

EmitArgvs(mode) ==
  {[mode |-> mode, files |-> <<File(X86_64, <<insn>>)>>] :
     insn \in EmitRecords({<< <<"0", "F">>, <<"5", "8">> >>, << <<"D", "9">> >>})}

\* the emitter is entered with the record loaded and the output file open
InitEmit ==
  /\ argv \in EmitArgvs("--binary-assembler")
  /\ pc = "x86_emit"
  /\ pair = 1
  /\ insns = argv.files[1].insns
  /\ by_operands = Ok(insns)
  /\ by_encodings = Ok(insns)
  /\ loaded_defs = insns
  /\ idx = 1
  /\ template_names = {}
  /\ instruction_names = {}
  /\ fs = <<Opened>>
  /\ run = 1
  /\ prev_fs = <<NoFile>>
  /\ lir_arch = <<>>
  /\ allowlist_found = {}
  /\ intrs = <<>>
  /\ arch_intrs = <<>>

NextEmit == X86EmitInstruction

SpecEmit == InitEmit /\ [][NextEmit]_vars

\* the record given to the emitter, and its operands that are parameters
Emitted == loaded_defs[1]

\* the encodings of the operands of a record, in the order of the operands
InOperandOrder(insn) ==
  [k \in DOMAIN ExplicitOperands(insn) |->
     x86_size_of(insn, ExplicitOperands(insn)[k].class).val \o <<"(", ArgName(k - 1), ")">>]

FirstTwoExchanged(list) ==
  IF Len(list) < 2 THEN list
  ELSE [k \in DOMAIN list |-> IF k = 1 THEN list[2] ELSE IF k = 2 THEN list[1] ELSE list[k]]

\* the EmitInstruction calls of a record, given the list of its encodings
EmitCalls(insn, list) ==
  x86_emit_line(Collect([k \in DOMAIN insn.opcodes |-> int16(insn.opcodes[k])]), list, FALSE).lines
  \o (IF _contains_mem(insn)
        THEN x86_emit_line(Collect([k \in DOMAIN insn.opcodes |-> int16(insn.opcodes[k])]),
                           list, TRUE).lines
        ELSE <<>>)

EmitReturned == pc = "x86_emit" /\ idx = 2

OtherOrderFlag(insn) ==
  \E flag \in {"rm_to_vex", "vex_imm_rm_to_reg", "vex_rm_imm_to_reg", "vex_rm_to_reg"} :
    Flag(insn, flag)

\* C22 as stated: for every record that has reg_to_rm the encodings of the
\* first two parameters are exchanged in the EmitInstruction call and the
\* others keep the order of the operands; for a record with no order flag
\* all encodings are in the order of the operands.
C22_RegToRmExchangesFirstTwo ==
  EmitReturned =>
    /\ Flag(Emitted, "reg_to_rm")
         => fs[1].text = EmitCalls(Emitted, FirstTwoExchanged(InOperandOrder(Emitted)))
    /\ ~Flag(Emitted, "reg_to_rm") /\ ~OtherOrderFlag(Emitted)
         => fs[1].text = EmitCalls(Emitted, InOperandOrder(Emitted))

\* C22, amended: the same for every record that has reg_to_rm and no other
\* order flag (rm_to_vex, vex_imm_rm_to_reg, vex_rm_imm_to_reg, vex_rm_to_reg).
C22_RegToRmAloneExchangesFirstTwo ==
  EmitReturned =>
    /\ Flag(Emitted, "reg_to_rm") /\ ~OtherOrderFlag(Emitted)
         => fs[1].text = EmitCalls(Emitted, FirstTwoExchanged(InOperandOrder(Emitted)))
    /\ ~Flag(Emitted, "reg_to_rm") /\ ~OtherOrderFlag(Emitted)
         => fs[1].text = EmitCalls(Emitted, InOperandOrder(Emitted))

\* a record with reg_to_rm, a fixed register among its operands and three
\* parameters, the second in memory: two calls, the first two encodings
\* exchanged and the third in its place
C22_ThreeParametersEmitted ==
  /\ EmitReturned
  /\ Flag(Emitted, "reg_to_rm") /\ ~OtherOrderFlag(Emitted)
  /\ Len(Emitted.args) > Len(ExplicitOperands(Emitted))
  /\ Len(ExplicitOperands(Emitted)) >= 3
  /\ Len(fs[1].text) = 2
  /\ fs[1].text # EmitCalls(Emitted, InOperandOrder(Emitted))


---------------------------------------------------------------------------
(* backend/gen_lir.py: the check of a record and its operands.             *)
(* None is <<>>; a number printed with %d is the token ToString gives.     *)

_is_reg(arg_type) == is_greg(arg_type) \/ is_xreg(arg_type) \/ is_implicit_reg(arg_type)

\* the addressing modes of the two assertions on addr_mode
KNOWN_ADDR_MODES == {<<ADDR_MODES[k]>> : k \in DOMAIN ADDR_MODES}

\* insn.get('addr_mode') in ('Absolute', 'BaseDisp', 'IndexDisp', 'BaseIndexDisp')
addr_mode_known(insn) == Has(insn, "addr_mode") /\ insn.addr_mode \in KNOWN_ADDR_MODES

RECURSIVE check_insn_defs_from_label_apart(_, _, _, _, _)
\* a check in which a label does not take the place of the immediate
check_insn_defs_from_label_apart(insn, i, seen_imm, seen_memop, seen_disp) ==
  IF i > Len(insn.args) THEN TRUE
  ELSE IF _is_reg(insn.args[i].class) \/ is_cond(insn.args[i].class)
            \/ is_label(insn.args[i].class)
    THEN check_insn_defs_from_label_apart(insn, i + 1, seen_imm, seen_memop, seen_disp)
  ELSE IF is_imm(insn.args[i].class)
    THEN ~seen_imm /\ check_insn_defs_from_label_apart(insn, i + 1, TRUE, seen_memop, seen_disp)
  ELSE IF is_mem_op(insn.args[i].class)
    THEN /\ ~seen_memop
         /\ addr_mode_known(insn)
         /\ check_insn_defs_from_label_apart(insn, i + 1, seen_imm, TRUE, seen_disp)
  ELSE IF is_disp(insn.args[i].class)
    THEN ~seen_disp /\ check_insn_defs_from_label_apart(insn, i + 1, seen_imm, seen_memop, TRUE)
  ELSE FALSE

RECURSIVE check_insn_defs_from(_, _, _, _, _)
\* the loop of _check_insn_defs from argument i on: TRUE when it runs to its
\* end, FALSE when an assertion fails
check_insn_defs_from(insn, i, seen_imm, seen_memop, seen_disp) ==
  IF i > Len(insn.args) THEN TRUE
  ELSE IF _is_reg(insn.args[i].class)
    THEN check_insn_defs_from(insn, i + 1, seen_imm, seen_memop, seen_disp)
  ELSE IF is_imm(insn.args[i].class)
    THEN ~seen_imm /\ check_insn_defs_from(insn, i + 1, TRUE, seen_memop, seen_disp)
  ELSE IF is_mem_op(insn.args[i].class)
    THEN /\ ~seen_memop
         /\ addr_mode_known(insn)
         /\ check_insn_defs_from(insn, i + 1, seen_imm, TRUE, seen_disp)
  ELSE IF is_disp(insn.args[i].class)
    THEN ~seen_disp /\ check_insn_defs_from(insn, i + 1, seen_imm, seen_memop, TRUE)
  ELSE IF is_cond(insn.args[i].class)
    THEN check_insn_defs_from(insn, i + 1, seen_imm, seen_memop, seen_disp)
  ELSE IF is_label(insn.args[i].class)
    THEN ~seen_imm /\ check_insn_defs_from(insn, i + 1, TRUE, seen_memop, seen_disp)
  ELSE FALSE

_check_insn_defs(insn) == check_insn_defs_from(insn, 1, FALSE, FALSE, FALSE)

\* an operand of the generated class: reg_operand_info and asm_arg are <<>> for None
Operand(type, name, reg_operand_info, initializer, asm_arg) ==
  [type |-> type, name |-> name, reg_operand_info |-> reg_operand_info,
   initializer |-> initializer, asm_arg |-> asm_arg]

MachineRegKind(usage) ==
  CASE usage = "use" -> Ok(<<"kUse">>)
    [] usage = "def" -> Ok(<<"kDef">>)
    [] usage = "use_def" -> Ok(<<"kUseDef">>)
    [] usage = "def_early_clobber" -> Ok(<<"kDefEarlyClobber">>)
    [] OTHER -> Raise

\* _get_reg_operand_info(usage, kind)
_get_reg_operand_info(usage, kind) ==
  IF ~MachineRegKind(usage).ok THEN Raise
  ELSE Ok(<<"{ &k">> \o kind \o <<", MachineRegKind::">> \o MachineRegKind(usage).val \o <<" }">>)

_make_reg_operand(r, usage, kind) ==
  IF ~_get_reg_operand_info(usage, kind).ok THEN Raise
  ELSE IF is_greg(kind) THEN
    Ok(Operand(<<"MachineReg">>, <<"r", ToString(r)>>, _get_reg_operand_info(usage, kind).val,
               <<"SetRegAt(", ToString(r), ", r", ToString(r), ")">>,
               <<"GetGReg(RegAt(", ToString(r), "))">>))
  ELSE IF is_xreg(kind) THEN
    Ok(Operand(<<"MachineReg">>, <<"r", ToString(r)>>, _get_reg_operand_info(usage, kind).val,
               <<"SetRegAt(", ToString(r), ", r", ToString(r), ")">>,
               <<"GetXReg(RegAt(", ToString(r), "))">>))
  ELSE IF is_implicit_reg(kind) THEN
    Ok(Operand(<<"MachineReg">>, <<"r", ToString(r)>>, _get_reg_operand_info(usage, kind).val,
               <<"SetRegAt(", ToString(r), ", r", ToString(r), ")">>, <<>>))
  ELSE Raise

\* kind[3:] of an immediate class
ImmBits(kind) ==
  CASE kind = <<"Imm2">> -> "2" [] kind = <<"Imm8">> -> "8" [] kind = <<"Imm16">> -> "16"
    [] kind = <<"Imm32">> -> "32" [] kind = <<"Imm64">> -> "64"

_make_imm_operand(bits) ==
  Operand(<<"int", bits, "_t">>, <<"imm">>, <<>>, <<"set_imm(imm)">>,
          <<"static_cast<", "int", bits, "_t", ">(imm())">>)

_make_scale_operand ==
  Operand(<<"MachineMemOperandScale">>, <<"scale">>, <<>>, <<"set_scale(scale)">>,
          <<"ToScaleFactor(scale())">>)

_make_disp_operand ==
  Operand(<<"uint32_t">>, <<"disp">>, <<>>, <<"set_disp(disp)">>, <<"disp()">>)

_make_cond_operand ==
  Operand(<<"Assembler::Condition">>, <<"cond">>, <<>>, <<"set_cond(cond)">>, <<"cond()">>)

_make_label_operand ==
  Operand(<<"Label*">>, <<"label">>, <<>>,
          <<"set_imm(reinterpret_cast<uintptr_t>(label))">>,
          <<"*reinterpret_cast<Label*>(imm())">>)

\* arg.get('usage'): "None" for None, which is no usage either
usage_of(arg) == IF Has(arg, "usage") THEN arg.usage ELSE "None"

\* the operands a memory operand stands for: base, index and scale, displacement
mem_operands(r, addr_mode) ==
  (IF addr_mode \in {<<"BaseDisp">>, <<"BaseIndexDisp">>}
     THEN <<_make_reg_operand(r, "use", <<"GeneralReg32">>).val>> ELSE <<>>)
  \o (IF addr_mode \in {<<"IndexDisp">>, <<"BaseIndexDisp">>}
        THEN <<_make_reg_operand(IF addr_mode = <<"BaseIndexDisp">> THEN r + 1 ELSE r,
                                 "use", <<"GeneralReg32">>).val,
               _make_scale_operand>>
        ELSE <<>>)
  \o <<_make_disp_operand>>

\* the registers a memory operand takes
mem_regs(addr_mode) ==
  (IF addr_mode \in {<<"BaseDisp">>, <<"BaseIndexDisp">>} THEN 1 ELSE 0)
  + (IF addr_mode \in {<<"IndexDisp">>, <<"BaseIndexDisp">>} THEN 1 ELSE 0)

\* the names of the instructions that have side effects whatever their operands
SIDE_EFFECT_NAMES == {<<"Int3">>, <<"Mfence">>, <<"UD2">>}

RECURSIVE get_insn_operands_from(_, _, _, _, _)
\* the loop of _get_insn_operands from argument i on: [res, side_effects], or
\* Raise (a failed assertion, or the KeyError of arg['usage'])
get_insn_operands_from(insn, i, r, res, side_effects) ==
  IF i > Len(insn.args) THEN Ok([res |-> res, side_effects |-> side_effects])
  ELSE IF _is_reg(insn.args[i].class) THEN
    IF ~_make_reg_operand(r, usage_of(insn.args[i]), insn.args[i].class).ok THEN Raise
    ELSE get_insn_operands_from(insn, i + 1, r + 1,
           Append(res, _make_reg_operand(r, usage_of(insn.args[i]), insn.args[i].class).val),
           side_effects)
  ELSE IF is_imm(insn.args[i].class) THEN
    get_insn_operands_from(insn, i + 1, r,
      Append(res, _make_imm_operand(ImmBits(insn.args[i].class))), side_effects)
  ELSE IF is_mem_op(insn.args[i].class) THEN
    IF ~Has(insn.args[i], "usage") \/ ~addr_mode_known(insn) THEN Raise
    ELSE get_insn_operands_from(insn, i + 1, r + mem_regs(insn.addr_mode),
           res \o mem_operands(r, insn.addr_mode),
           side_effects \/ insn.args[i].usage # "use")
  ELSE IF is_disp(insn.args[i].class) THEN
    get_insn_operands_from(insn, i + 1, r, Append(res, _make_disp_operand), side_effects)
  ELSE IF is_cond(insn.args[i].class) THEN
    get_insn_operands_from(insn, i + 1, r, Append(res, _make_cond_operand), side_effects)
  ELSE IF is_label(insn.args[i].class) THEN
    get_insn_operands_from(insn, i + 1, r, Append(res, _make_label_operand), side_effects)
  ELSE Raise

\* a classification that looks at the operands alone
_get_insn_operands_by_operands_only(insn) ==
  get_insn_operands_from(insn, 1, 0, <<>>, FALSE)

\* _get_insn_operands(insn): Int3, Mfence and UD2 have side effects not related
\* to arguments
_get_insn_operands(insn) ==
  get_insn_operands_from(insn, 1, 0, <<>>, insn.name \in SIDE_EFFECT_NAMES)

\* [x for x in list if x], for the named field of the operands
Present(operands, field) ==
  LET kept == SelectSeq(operands, LAMBDA op : op[field] # <<>>)
  IN [k \in DOMAIN kept |-> kept[k][field]]

\* the lines _gen_insn_class prints for the name, the operands and the kind
insn_class_lines(name, operands, kind) ==
  << <<"class ">> \o name \o <<" : public MachineInsnForArch {">>,
     <<" public:">>,
     <<"  explicit ">> \o name \o <<"(">>
       \o Join(<<", ">>, [k \in DOMAIN operands |->
                            operands[k].type \o <<" ">> \o operands[k].name])
       \o <<");">>,
     <<"  static constexpr MachineInsnInfo kInfo =">>,
     <<"      MachineInsnInfo({kMachineOp">> \o name \o <<",">>,
     <<"                       ", ToString(Len(Present(operands, "reg_operand_info"))), ",">>,
     <<"                       {">> \o Join(<<", ">>, Present(operands, "reg_operand_info"))
       \o <<"},">>,
     <<"                       ", kind, "});">>,
     <<"  static constexpr int NumRegOperands() { return kInfo.num_reg_operands; }">>,
     <<"  static constexpr const MachineRegKind& RegKindAt(int i) { return kInfo.reg_kinds[i]; }">>,
     <<"  std::string GetDebugString() const override;">>,
     <<"  void Emit(CodeEmitter* as) const override;">>,
     <<"};">> >>

\* _gen_insn_class(f, insn): nothing is printed when _get_insn_operands raises
_gen_insn_class(insn) ==
  IF ~_get_insn_operands(insn).ok THEN Raised(<<>>)
  ELSE Printed(insn_class_lines(insn.name, _get_insn_operands(insn).val.res,
                                IF _get_insn_operands(insn).val.side_effects
                                  THEN "kMachineInsnSideEffects"
                                  ELSE "kMachineInsnDefault"))

---------------------------------------------------------------------------
(* backend/gen_lir.py: loading.  A definition file is [arch, insns], arch  *)
(* <<>> for a file without one; an allowlist file is [insns |-> names]; a   *)
(* binding file is the list of its items, a string (a line of the license) *)
(* being [str |-> TRUE] and a binding a record with the key 'insn'.        *)

\* load_asm_defs(asm_def): (arch, the records expanded and sorted), or Raise
load_asm_defs(asm_def) ==
  IF ~OperandsThenEncodings(asm_def.insns).ok THEN Raise
  ELSE Ok([arch |-> asm_def.arch,
           insns |-> sorted_by_asm(OperandsThenEncodings(asm_def.insns).val)])

\* get_mem_macro_name(insn, ''): the empty string is not None, so a memory
\* operand adds 'Mem' + ''; <<"">> is the empty string as a token, which the
\* concatenation leaves out
mem_group_macro_name(insn) ==
  IF ~get_mem_macro_name(insn, <<"">>).ok THEN Raise
  ELSE Ok(SelectSeq(get_mem_macro_name(insn, <<"">>).val, LAMBDA tok : tok # ""))

_create_mem_insn(insn, addr_mode) ==
  IF ~get_mem_macro_name(insn, addr_mode).ok THEN Raise
  ELSE Ok(Update(insn, [name |-> get_mem_macro_name(insn, addr_mode).val,
                        addr_mode |-> addr_mode,
                        asm |-> get_mem_macro_name(insn, addr_mode).val,
                        mem_group_name |-> mem_group_macro_name(insn).val \o <<"Insns">>]))

\* the addressing modes in the order of _expand_mem_insns and _gen_mem_insn_groups
ADDR_MODE_ORDER == [k \in DOMAIN ADDR_MODES |-> <<ADDR_MODES[k]>>]

\* the body of the loop of _expand_mem_insns
expand_mem_one(insn) ==
  IF _contains_mem(insn)
    THEN Collect([k \in DOMAIN ADDR_MODE_ORDER |-> _create_mem_insn(insn, ADDR_MODE_ORDER[k])])
    ELSE Ok(<<insn>>)

_expand_mem_insns(in_insns) ==
  IF ~Collect([i \in DOMAIN in_insns |-> expand_mem_one(in_insns[i])]).ok THEN Raise
  ELSE Ok(Flatten(Collect([i \in DOMAIN in_insns |-> expand_mem_one(in_insns[i])]).val))

\* insn.get('mem_group_name', insn['name'])
insn_name(insn) == IF Has(insn, "mem_group_name") THEN insn.mem_group_name ELSE insn.name

\* a filter that keeps a record when its own name is looked up, too
kept_by_either_name(allowlist_looked, insn) ==
  /\ insn_name(insn) \in allowlist_looked \/ insn.name \in allowlist_looked
  /\ ~(Has(insn, "skip_lir") /\ insn.skip_lir)

\* _load_lir_def, lines 461-467: the record is kept when its name is looked up
\* and the definition file does not mark it skip_lir
kept_for_lir(allowlist_looked, insn) ==
  /\ insn_name(insn) \in allowlist_looked
  /\ ~(Has(insn, "skip_lir") /\ insn.skip_lir)

\* _load_lir_def, given what load_asm_defs and _expand_mem_insns returned
lir_def_of(allowlist_looked, found, def_arch, expanded) ==
  [arch |-> def_arch,
   found |-> found \cup ({insn_name(expanded[i]) : i \in DOMAIN expanded} \cap allowlist_looked),
   insns |-> SelectSeq(expanded, LAMBDA insn : kept_for_lir(allowlist_looked, insn))]

\* _load_lir_def(allowlist_looked, allowlist_found, asm_def): [arch, found, insns],
\* found being allowlist_found as the call leaves it, or Raise
_load_lir_def(allowlist_looked, found, asm_def) ==
  IF ~load_asm_defs(asm_def).ok THEN Raise
  ELSE IF ~_expand_mem_insns(load_asm_defs(asm_def).val.insns).ok THEN Raise
  ELSE Ok(lir_def_of(allowlist_looked, found, load_asm_defs(asm_def).val.arch,
                     _expand_mem_insns(load_asm_defs(asm_def).val.insns).val))

RECURSIVE pop_strings(_)
\* while isinstance(json_array[0], str): json_array.pop(0); IndexError on a
\* list that has no other item
pop_strings(json_array) ==
  IF json_array = <<>> THEN Raise
  ELSE IF Has(Head(json_array), "str") THEN pop_strings(Tail(json_array))
  ELSE Ok(json_array)

\* insn.get('usage', '') != 'interpret-only'
not_interpret_only(binding) == ~(Has(binding, "usage") /\ binding.usage = "interpret-only")

\* the names one binding file adds, or Raise
binding_names(json_array) ==
  IF ~pop_strings(json_array).ok THEN Raise
  ELSE IF \E k \in DOMAIN pop_strings(json_array).val :
            Has(pop_strings(json_array).val[k], "str") THEN Raise
  ELSE Ok({pop_strings(json_array).val[k].insn :
             k \in {j \in DOMAIN pop_strings(json_array).val :
                      not_interpret_only(pop_strings(json_array).val[j])}})

_allowlist_instructions(allowlist_files, machine_ir_intrinsic_binding_files) ==
  IF \E k \in DOMAIN machine_ir_intrinsic_binding_files :
       ~binding_names(machine_ir_intrinsic_binding_files[k]).ok THEN Raise
  ELSE Ok(UNION {{allowlist_files[k].insns[j] : j \in DOMAIN allowlist_files[k].insns} :
                   k \in DOMAIN allowlist_files}
          \cup UNION {binding_names(machine_ir_intrinsic_binding_files[k]).val :
                        k \in DOMAIN machine_ir_intrinsic_binding_files})

\* the allowlist_looked of load_all_lir_defs
allowlist_looked ==
  _allowlist_instructions(argv.allowlist_files, argv.machine_ir_intrinsic_binding_files)

\* load_all_lir_defs, lines 490-493
LirAllowlist ==
  /\ pc = "lir_start"
  /\ pc' = IF allowlist_looked.ok THEN "lir_load" ELSE "aborted"
  /\ allowlist_found' = {}
  /\ lir_arch' = <<>>
  /\ insns' = <<>>
  /\ UNCHANGED <<argv, pair, by_operands, by_encodings, loaded_defs, idx, template_names, fs,
                 instruction_names, run, prev_fs, intrs, arch_intrs>>

\* if arch and not arch.startswith('common_')
arch_is_set(a) == a # <<>> /\ a[1] # "common_"

\* load_all_lir_defs, lines 494-500: one definition file
LirLoadDef ==
  /\ pc = "lir_load"
  /\ pair <= Len(argv.files)
  /\ \E r \in {_load_lir_def(allowlist_looked.val, allowlist_found, argv.files[pair])} :
       IF ~r.ok \/ (arch_is_set(lir_arch) /\ r.val.arch # <<>> /\ lir_arch # r.val.arch)
         THEN /\ pc' = "aborted"
              /\ UNCHANGED <<pair, insns, lir_arch, allowlist_found>>
         ELSE /\ pc' = "lir_load"
              /\ pair' = pair + 1
              /\ lir_arch' = IF arch_is_set(lir_arch) THEN lir_arch ELSE r.val.arch
              /\ allowlist_found' = r.val.found
              /\ insns' = insns \o r.val.insns
  /\ UNCHANGED <<argv, by_operands, by_encodings, loaded_defs, idx, template_names, fs,
                 instruction_names, run, prev_fs, intrs, arch_intrs>>

\* load_all_lir_defs, lines 501-504, and main, lines 541 and 544: the records
\* are checked, the names looked up are compared with the names found, and
\* _gen_machine_ir_h opens its output
LirCheck ==
  /\ pc = "lir_load"
  /\ pair > Len(argv.files)
  /\ IF (\A i \in DOMAIN insns : _check_insn_defs(insns[i]))
          /\ allowlist_looked.val = allowlist_found
       THEN /\ pc' = "lir_gen"
            /\ loaded_defs' = insns
            /\ idx' = 1
            /\ fs' = <<Opened>>
       ELSE /\ pc' = "aborted"
            /\ UNCHANGED <<loaded_defs, idx, fs>>
  /\ UNCHANGED <<argv, pair, insns, by_operands, by_encodings, template_names,
                 instruction_names, run, prev_fs, lir_vars>>

\* _gen_machine_ir_h, lines 424-426: the class of one record
GenInsnClass ==
  /\ pc = "lir_gen"
  /\ idx <= Len(loaded_defs)
  /\ \E r \in {_gen_insn_class(loaded_defs[idx])} :
       /\ fs' = [fs EXCEPT ![1].text = @ \o r.lines]
       /\ idx' = IF r.ok THEN idx + 1 ELSE idx
       /\ pc' = IF r.ok THEN "lir_gen" ELSE "aborted"
  /\ UNCHANGED <<argv, pair, insns, by_operands, by_encodings, loaded_defs, template_names,
                 instruction_names, run, prev_fs, lir_vars>>

RECURSIVE sorted_names(_)
\* sorted(names), for a set of strings
sorted_names(names) ==
  IF names = {} THEN <<>>
  ELSE LET least == CHOOSE x \in names : \A y \in names \ {x} : StrLess(x, y)
       IN <<least>> \o sorted_names(names \ {least})

\* groups[group_name][addr_mode]: the name of the last record of the group
\* with the addressing mode, or Raise (KeyError)
group_insn_name(in_insns, group_name, addr_mode) ==
  LET at == {i \in DOMAIN in_insns :
               /\ Truthy(in_insns[i], "mem_group_name")
               /\ in_insns[i].mem_group_name = group_name
               /\ Has(in_insns[i], "addr_mode")
               /\ in_insns[i].addr_mode = addr_mode}
  IN IF at = {} THEN Raise
     ELSE Ok(in_insns[CHOOSE i \in at : \A j \in at : j <= i].name)

\* the line of one group
mem_insn_group(in_insns, group_name) ==
  IF ~Collect([k \in DOMAIN ADDR_MODE_ORDER |->
                 group_insn_name(in_insns, group_name, ADDR_MODE_ORDER[k])]).ok
    THEN Raised(<<>>)
  ELSE Printed(<< <<"using ">> \o group_name \o <<" = MemInsns<">>
                    \o Join(<<", ">>,
                            Collect([k \in DOMAIN ADDR_MODE_ORDER |->
                                       group_insn_name(in_insns, group_name,
                                                       ADDR_MODE_ORDER[k])]).val)
                    \o <<">;">> >>)

\* the groups of _gen_mem_insn_groups, in the order they are printed
mem_insn_groups(in_insns) ==
  sorted_names({in_insns[i].mem_group_name :
                  i \in {j \in DOMAIN in_insns : Truthy(in_insns[j], "mem_group_name")}})

_gen_mem_insn_groups(in_insns) ==
  Seqn([k \in DOMAIN mem_insn_groups(in_insns) |->
          mem_insn_group(in_insns, mem_insn_groups(in_insns)[k])])

\* _gen_machine_ir_h, lines 427-428: the empty line and the groups
GenMemInsnGroups ==
  /\ pc = "lir_gen"
  /\ idx > Len(loaded_defs)
  /\ \E r \in {Then(Printed(<< <<>> >>), _gen_mem_insn_groups(loaded_defs))} :
       /\ fs' = [fs EXCEPT ![1].text = @ \o r.lines]
       /\ pc' = IF r.ok THEN "done" ELSE "aborted"
  /\ UNCHANGED <<argv, pair, insns, by_operands, by_encodings, loaded_defs, idx,
                 template_names, instruction_names, run, prev_fs, lir_vars>>

\* _check_insn_defs applied to one record
CheckInsnDefs ==
  /\ pc = "check"
  /\ pc' = IF _check_insn_defs(loaded_defs[1]) THEN "checked" ELSE "aborted"
  /\ UNCHANGED <<argv, pair, insns, by_operands, by_encodings, loaded_defs, idx,
                 template_names, fs, instruction_names, run, prev_fs, lir_vars>>

\* The records given to _check_insn_defs: every list of up to MaxOperands
\* operands, one of them of a class the generator does not know, without an
\* addressing mode, with one of the four, and with another one.
CheckArgs ==
  {Arg("GeneralReg32", "use"), Arg("Mem32", "use"), Imm("Imm8"), Imm("Label"),
   Imm("Disp"), Imm("Cond"), Arg("RegX87", "use")}

CheckRecords ==
  {Update(Plain(<<"Add">>, <<"Add">>, args), mode) :
     args \in SeqsOf(CheckArgs, 0, MaxOperands),
     mode \in {<<>>, [addr_mode |-> <<"BaseDisp">>], [addr_mode |-> <<"Scaled">>]}}

\* The definition files given to gen_lir.py: one or two records of
\* instructions without operands, with register operands, with a memory
\* operand that is read, written or both, with two memory operands, with an
\* immediate and a label, one named as a record with a memory operand is, and
\* one the file marks skip_lir.
LirRecords ==
  {Plain(<<"Int3">>, <<"Int3">>, <<>>),
   Plain(<<"Add">>, <<"Add", "Reg", "Reg">>,
         <<Arg("GeneralReg32", "use_def"), Arg("GeneralReg32", "use")>>),
   Plain(<<"Add">>, <<"Add", "Reg", "Op">>,
         <<Arg("GeneralReg32", "use_def"), Arg("Mem32", "use")>>),
   Plain(<<"Add">>, <<"Add", "Op", "Reg">>,
         <<Arg("Mem32", "use_def"), Arg("GeneralReg32", "use")>>),
   Plain(<<"Add">>, <<"Add", "Op", "Op">>, <<Arg("Mem32", "def"), Arg("Mem32", "use")>>),
   Plain(<<"Add">>, <<"Add", "Imm">>, <<Imm("Imm8"), Imm("Label")>>),
   Plain(<<"Add">>, <<"Add", "Reg", "Mem", "BaseDisp">>, <<>>),
   Plain(<<"Test">>, <<"Test", "Reg">>, <<Arg("GeneralReg32", "use")>>)
     @@ [skip_lir |-> TRUE]}

LirFiles ==
  {<<File(X86_64, <<a>>)>> : a \in LirRecords}
  \cup {<<File(X86_64, <<a, b>>)>> : a, b \in LirRecords}
  \cup {<<File(<<"common_", "x86">>, <<a>>), File(def_arch, <<b>>)>> :
          a, b \in {Plain(<<"Int3">>, <<"Int3">>, <<>>),
                    Plain(<<"Add">>, <<"Add", "Reg", "Reg">>,
                          <<Arg("GeneralReg32", "use_def"), Arg("GeneralReg32", "use")>>)},
          def_arch \in {X86_64, <<>>}}
  \cup {<<File(X86_64, <<a>>), File(def_arch, <<a>>)>> :
          a \in {Plain(<<"Int3">>, <<"Int3">>, <<>>)}, def_arch \in {X86_64, X86_32, <<>>}}
  \cup {<<File(X86_64, <<Plain(name, name, <<>>)>>)>> : name \in {<<"Mfence">>, <<"UD2">>}}

\* the names looked up: the names the records are looked up by, the name of a
\* record with a memory operand, and a name of no record
LirNames ==
  {<<"Int3">>, <<"Add", "Reg", "Reg">>, <<"Add", "Reg", "Mem", "Insns">>,
   <<"Add", "Reg", "Mem", "BaseDisp">>, <<"Add", "Mem", "Reg", "Insns">>,
   <<"Add", "Mem", "Mem", "Insns">>, <<"Add", "Imm">>, <<"Test", "Reg">>, <<"Mfence">>,
   <<"UD2">>}

\* a binding of machine_ir_intrinsic_binding.json, as far as gen_lir.py reads it
Binding(insn, usage) == [insn |-> insn] @@ usage

\* the allowlist files and the binding files: up to two names in an allowlist
\* and no binding file, or a binding file with the lines of a license, with a
\* binding that is interpret-only or not, or with nothing but the license
LirLists ==
  {[allowlist_files |-> <<[insns |-> names]>>, machine_ir_intrinsic_binding_files |-> <<>>] :
     names \in {<<>>} \cup {<<a>> : a \in LirNames} \cup {<<a, b>> : a, b \in LirNames}}
  \cup {[allowlist_files |-> <<[insns |-> names]>>,
         machine_ir_intrinsic_binding_files |-> <<bindings>>] :
          names \in {<<>>, << <<"Int3">> >>},
          bindings \in
            {<<Binding(<<"Add", "Reg", "Reg">>, <<>>)>>,
             <<[str |-> TRUE], Binding(<<"Add", "Reg", "Reg">>, [usage |-> "interpret-only"])>>,
             <<[str |-> TRUE], Binding(<<"Add", "Reg", "Mem", "Insns">>,
                                       [usage |-> "translate-only"]),
               Binding(<<"Int3">>, [usage |-> "interpret-only"])>>,
             <<Binding(<<"Int3">>, <<>>), [str |-> TRUE]>>,
             <<[str |-> TRUE]>>}}

LirArgvs(mode) ==
  {[mode |-> mode, files |-> files] @@ lists : files \in LirFiles, lists \in LirLists}

CheckArgvs(mode) ==
  {[mode |-> mode, files |-> <<File(X86_64, <<insn>>)>>] : insn \in CheckRecords}

---------------------------------------------------------------------------
(* intrinsics/gen_intrinsics.py: _open_asm_def_files.  A dict keyed by     *)
(* names is a function over names, {} being <<>>; an intrinsic is [in, out] *)
(* with the lists of its arguments and results; a binding is [name, insn,  *)
(* in, out] with the positions of the operands, and the keys it gives.     *)

\* _load_intrs_def_files(intrs_def_files): the files are merged, a later one
\* replacing the entries of an earlier one, and the license is dropped
_load_intrs_def_files(intrs_def_files) ==
  LET merged[k \in 0..Len(intrs_def_files)] ==
        IF k = 0 THEN <<>> ELSE Update(merged[k - 1], intrs_def_files[k])
  IN [name \in (DOMAIN merged[Len(intrs_def_files)]) \ {<<"License">>} |->
        merged[Len(intrs_def_files)][name]]

\* _load_intrs_arch_def(intrs_defs): the bindings of the files, or Raise
_load_intrs_arch_def(intrs_defs) ==
  IF \E k \in DOMAIN intrs_defs : ~pop_strings(intrs_defs[k]).ok THEN Raise
  ELSE Ok(Flatten([k \in DOMAIN intrs_defs |-> pop_strings(intrs_defs[k]).val]))

\* the keys _add_asm_insn compares and copies
BINDING_KEYS == {"variants", "feature", "nan", "usage"}

\* assert key not in insn or insn[key] == arch_intr[key]; a KeyError when the
\* binding has no such key
keys_agree(arch_intr, insn) ==
  \A key \in BINDING_KEYS :
    ~Has(insn, key) \/ (Has(arch_intr, key) /\ insn[key] = arch_intr[key])

RECURSIVE mark_args(_, _, _, _)
\* the loops over enumerate(arch_intr['in']) and enumerate(arch_intr['out']),
\* from the count-th position on: the operands marked, or Raise
mark_args(args, positions, count, key) ==
  IF count >= Len(positions) THEN Ok(args)
  ELSE IF (positions[count + 1] + 1) \notin DOMAIN args THEN Raise
  ELSE IF Has(args[positions[count + 1] + 1], key)
            /\ args[positions[count + 1] + 1][key] # count THEN Raise
  ELSE mark_args([args EXCEPT ![positions[count + 1] + 1] = Put(@, key, count)],
                 positions, count + 1, key)

\* the record as _add_asm_insn leaves it, given the operands marked
insn_bound(arch_intr, insn, args) ==
  Put(Update(insn, [key \in BINDING_KEYS \cap DOMAIN arch_intr |-> arch_intr[key]]),
      "args", args)

\* intrs[name]['asm'].append(insn)
asm_appended(in_intrs, name, insn) ==
  [in_intrs EXCEPT ![name] =
     Put(@, "asm", (IF Has(@, "asm") THEN @.asm ELSE <<>>) \o <<insn>>)]

\* _add_asm_insn(intrs, arch_intr, insn): [intrs, insn] as the call leaves
\* them, or Raise.  intrs[name]['asm'] holds the record itself, which a later
\* binding of the same file may still change: it is entered as [ref], the
\* name of the record, until the file is done.
_add_asm_insn(in_intrs, arch_intr, insn) ==
  IF ~Has(arch_intr, "name") \/ ~keys_agree(arch_intr, insn) THEN Raise
  ELSE IF arch_intr.name \notin DOMAIN in_intrs THEN Raise
  ELSE IF Len(in_intrs[arch_intr.name].in) # Len(arch_intr.in) THEN Raise
  ELSE IF Len(in_intrs[arch_intr.name].out) # Len(arch_intr.out) THEN Raise
  ELSE IF ~mark_args(insn.args, arch_intr.in, 0, "ir_arg").ok THEN Raise
  ELSE IF ~mark_args(mark_args(insn.args, arch_intr.in, 0, "ir_arg").val,
                     arch_intr.out, 0, "ir_res").ok THEN Raise
  ELSE Ok([intrs |-> asm_appended(in_intrs, arch_intr.name, [ref |-> insn.name]),
           insn |-> insn_bound(arch_intr, insn,
                      mark_args(mark_args(insn.args, arch_intr.in, 0, "ir_arg").val,
                                arch_intr.out, 0, "ir_res").val)])

\* dict((insn['name'], insn) for insn in insns): the last record of a name
insns_map_of(in_insns) ==
  [name \in {in_insns[i].name : i \in DOMAIN in_insns} |->
     in_insns[CHOOSE i \in DOMAIN in_insns :
                /\ in_insns[i].name = name
                /\ \A j \in DOMAIN in_insns : in_insns[j].name = name => j <= i]]

\* the records entered by name are the records as the file leaves them
asm_resolved(in_intrs, insns_map) ==
  [name \in DOMAIN in_intrs |->
     IF Has(in_intrs[name], "asm")
       THEN [in_intrs[name] EXCEPT !.asm =
               [k \in DOMAIN @ |-> IF Has(@[k], "ref") THEN insns_map[@[k].ref] ELSE @[k]]]
       ELSE in_intrs[name]]

RECURSIVE load_macro_def_from(_, _, _, _, _)
\* the loop of _load_macro_def from the i-th binding on: [intrs, unprocessed],
\* or Raise
load_macro_def_from(in_intrs, insns_map, in_arch_intrs, i, unprocessed_intrs) ==
  IF i > Len(in_arch_intrs)
    THEN Ok([intrs |-> asm_resolved(in_intrs, insns_map), unprocessed |-> unprocessed_intrs])
  ELSE IF ~Has(in_arch_intrs[i], "insn") THEN Raise
  ELSE IF in_arch_intrs[i].insn \notin DOMAIN insns_map
    THEN load_macro_def_from(in_intrs, insns_map, in_arch_intrs, i + 1,
                             Append(unprocessed_intrs, in_arch_intrs[i]))
  ELSE IF ~_add_asm_insn(in_intrs, in_arch_intrs[i], insns_map[in_arch_intrs[i].insn]).ok
    THEN Raise
  ELSE load_macro_def_from(
         _add_asm_insn(in_intrs, in_arch_intrs[i], insns_map[in_arch_intrs[i].insn]).val.intrs,
         Put(insns_map, in_arch_intrs[i].insn,
             _add_asm_insn(in_intrs, in_arch_intrs[i],
                           insns_map[in_arch_intrs[i].insn]).val.insn),
         in_arch_intrs, i + 1, unprocessed_intrs)

\* _load_macro_def(intrs, arch_intrs, insns_def): intrs as the call leaves it
\* and the bindings it returns, or Raise
_load_macro_def(in_intrs, in_arch_intrs, insns_def) ==
  IF ~load_asm_defs(insns_def).ok THEN Raise
  ELSE load_macro_def_from(in_intrs, insns_map_of(load_asm_defs(insns_def).val.insns),
                           in_arch_intrs, 1, <<>>)

\* _open_asm_def_files, lines 793-794
IntrLoadDefs ==
  /\ pc = "intr_start"
  /\ \E r \in {_load_intrs_arch_def(argv.arch_def_files)} :
       /\ pc' = IF r.ok THEN "intr_load" ELSE "aborted"
       /\ arch_intrs' = IF r.ok THEN r.val ELSE <<>>
  /\ intrs' = _load_intrs_def_files(argv.def_files)
  /\ UNCHANGED <<argv, pair, insns, by_operands, by_encodings, loaded_defs, idx,
                 template_names, fs, instruction_names, run, prev_fs, lir_arch,
                 allowlist_found>>

\* _open_asm_def_files, lines 795-796: one macro definition file
IntrLoadMacroDef ==
  /\ pc = "intr_load"
  /\ pair <= Len(argv.files)
  /\ \E r \in {_load_macro_def(intrs, arch_intrs, argv.files[pair])} :
       IF r.ok
         THEN /\ pc' = "intr_load"
              /\ pair' = pair + 1
              /\ intrs' = r.val.intrs
              /\ arch_intrs' = r.val.unprocessed
         ELSE /\ pc' = "aborted"
              /\ UNCHANGED <<pair, intrs, arch_intrs>>
  /\ UNCHANGED <<argv, insns, by_operands, by_encodings, loaded_defs, idx,
                 template_names, fs, instruction_names, run, prev_fs, lir_arch,
                 allowlist_found>>

\* sorted(intrs.items())
sorted_items(in_intrs) ==
  [k \in DOMAIN sorted_names(DOMAIN in_intrs) |->
     <<sorted_names(DOMAIN in_intrs)[k], in_intrs[sorted_names(DOMAIN in_intrs)[k]]>>]

\* _open_asm_def_files, lines 797-799: every binding must have been found
IntrReturn ==
  /\ pc = "intr_load"
  /\ pair > Len(argv.files)
  /\ pc' = IF arch_intrs = <<>> THEN "intr_returned" ELSE "aborted"
  /\ loaded_defs' = IF arch_intrs = <<>> THEN sorted_items(intrs) ELSE loaded_defs
  /\ UNCHANGED <<argv, pair, insns, by_operands, by_encodings, idx, template_names, fs,
                 instruction_names, run, prev_fs, lir_vars>>

\* The inputs of _open_asm_def_files: the intrinsics Add and Test and the
\* license; one or two bindings, of an instruction of the macro definition
\* files or of none, of an intrinsic that is defined or not, with the
\* positions of the operands right or wrong, behind the lines of the license
\* or not; and no, one or two macro definition files.
IntrDefs ==
  (<<"Add">> :> [in |-> <<"uint32_t", "uint32_t">>, out |-> <<"uint32_t">>])
  @@ (<<"Test">> :> [in |-> <<"uint32_t">>, out |-> <<>>])
  @@ (<<"License">> :> <<"license">>)

IntrBinding(name, insn, in, out) == [name |-> name, insn |-> insn, in |-> in, out |-> out]

IntrBindings ==
  {IntrBinding(<<"Add">>, <<"Add", "Reg", "Reg">>, <<0, 1>>, <<0>>),
   IntrBinding(<<"Add">>, <<"Add", "Reg", "Reg">>, <<0, 1>>, <<0>>)
     @@ [usage |-> "translate-only"],
   IntrBinding(<<"Test">>, <<"Test", "Reg">>, <<0>>, <<>>),
   IntrBinding(<<"Add">>, <<"Shl", "Reg", "Reg">>, <<0, 1>>, <<0>>),
   IntrBinding(<<"Shl">>, <<"Add", "Reg", "Reg">>, <<0, 1>>, <<0>>),
   IntrBinding(<<"Add">>, <<"Test", "Reg">>, <<0, 1>>, <<0>>)}

IntrBindingFiles ==
  {<<a>> : a \in IntrBindings}
  \cup {<<a, b>> : a, b \in IntrBindings}
  \cup {<<[str |-> TRUE], a>> : a \in IntrBindings}
  \cup {<<[str |-> TRUE]>>}

MacroFiles ==
  {File(X86_64, <<Plain(<<"Add">>, <<"Add", "Reg", "Reg">>,
                        <<Arg("GeneralReg32", "use_def"), Arg("GeneralReg32", "use")>>)>>),
   File(X86_64, <<Plain(<<"Test">>, <<"Test", "Reg">>, <<Arg("GeneralReg32", "use")>>)>>)}

IntrArgvs(mode) ==
  {[mode |-> mode, def_files |-> <<IntrDefs>>, arch_def_files |-> <<bindings>>,
    files |-> files] :
     bindings \in IntrBindingFiles,
     files \in {<<>>} \cup {<<a>> : a \in MacroFiles} \cup {<<a, b>> : a, b \in MacroFiles}}

\* gen_lir.py is started with --headers, gen_intrinsics.py with
\* --make_intrinsics_cc, or _check_insn_defs is given a record
InitLir ==
  /\ \/ /\ argv \in LirArgvs("--headers")
        /\ pc = "lir_start"
        /\ loaded_defs = <<>>
     \/ /\ argv \in IntrArgvs("--make_intrinsics_cc")
        /\ pc = "intr_start"
        /\ loaded_defs = <<>>
     \/ /\ argv \in CheckArgvs("_check_insn_defs")
        /\ pc = "check"
        /\ loaded_defs = argv.files[1].insns
  /\ pair = 1
  /\ insns = <<>>
  /\ by_operands = Raise
  /\ by_encodings = Raise
  /\ idx = 1
  /\ template_names = {}
  /\ instruction_names = {}
  /\ fs = <<NoFile>>
  /\ run = 1
  /\ prev_fs = fs
  /\ lir_arch = <<>>
  /\ allowlist_found = {}
  /\ intrs = <<>>
  /\ arch_intrs = <<>>

NextLir ==
  \/ LirAllowlist
  \/ LirLoadDef
  \/ LirCheck
  \/ GenInsnClass
  \/ GenMemInsnGroups
  \/ CheckInsnDefs
  \/ IntrLoadDefs
  \/ IntrLoadMacroDef
  \/ IntrReturn

SpecLir == InitLir /\ [][NextLir]_vars


---------------------------------------------------------------------------
(* The check of the operands of a record.                                  *)

KnownClass(cls) ==
  _is_reg(cls) \/ is_imm(cls) \/ is_mem_op(cls) \/ is_disp(cls) \/ is_cond(cls) \/ is_label(cls)

ImmediateOrLabel(cls) == is_imm(cls) \/ is_label(cls)

\* the records the claim says are accepted
Acceptable(insn) ==
  /\ \A i \in DOMAIN insn.args : KnownClass(insn.args[i].class)
  /\ CountArgs(insn, ImmediateOrLabel) <= 1
  /\ CountArgs(insn, is_mem_op) <= 1
  /\ CountArgs(insn, is_disp) <= 1
  /\ CountArgs(insn, is_mem_op) > 0 =>
       /\ Has(insn, "addr_mode")
       /\ insn.addr_mode \in {<<"Absolute">>, <<"BaseDisp">>, <<"IndexDisp">>,
                              <<"BaseIndexDisp">>}

\* _check_insn_defs was given the record loaded_defs[1]
CheckCalled == argv.mode = "_check_insn_defs"

\* load_all_lir_defs returned loaded_defs
LirReturned == argv.mode = "--headers" /\ fs[1].opened

\* C29: _check_insn_defs accepts a record exactly when every operand class
\* is known, at most one operand is an immediate or a label, at most one is
\* a memory operand, at most one is a displacement, and a record with a
\* memory operand has one of the four addressing modes; otherwise it
\* aborts; and every record load_all_lir_defs returns is such a record.
C29_CheckAcceptsWellFormedRecords ==
  /\ (CheckCalled /\ pc = "checked") => Acceptable(loaded_defs[1])
  /\ (CheckCalled /\ pc = "aborted") => ~Acceptable(loaded_defs[1])
  /\ LirReturned => \A i \in DOMAIN loaded_defs : Acceptable(loaded_defs[i])

\* a record with an immediate and a label, and nothing else wrong, is rejected
C29_ImmediateAndLabelRejected ==
  /\ CheckCalled
  /\ pc = "aborted"
  /\ CountArgs(loaded_defs[1], is_imm) = 1
  /\ CountArgs(loaded_defs[1], is_label) = 1
  /\ CountArgs(loaded_defs[1], is_mem_op) = 0
  /\ CountArgs(loaded_defs[1], is_disp) = 0
  /\ \A i \in DOMAIN loaded_defs[1].args : KnownClass(loaded_defs[1].args[i].class)

---------------------------------------------------------------------------
(* The side effects of a generated class.                                  *)

\* the lines of the output that give the kind of a class
IsKindLine(line) == Len(line) = 3 /\ line[3] = "});"

\* the kind printed for the k-th record
KindPrinted(k) == SelectSeq(fs[1].text, IsKindLine)[k][2]

WritesMemory(insn) ==
  \E i \in DOMAIN insn.args : is_mem_op(insn.args[i].class) /\ insn.args[i].usage # "use"

NamedForSideEffects(insn) == insn.name \in {<<"Int3">>, <<"Mfence">>, <<"UD2">>}

\* C23: the class generated for a record is marked kMachineInsnSideEffects
\* exactly when the record has a memory operand whose usage is not 'use' or
\* is named Int3, Mfence or UD2; every other class is marked
\* kMachineInsnDefault.
C23_SideEffectsMarked ==
  LirReturned =>
    /\ Count(fs[1].text, IsKindLine) = idx - 1
    /\ \A k \in 1..(idx - 1) :
         KindPrinted(k) = IF WritesMemory(loaded_defs[k]) \/ NamedForSideEffects(loaded_defs[k])
                            THEN "kMachineInsnSideEffects"
                            ELSE "kMachineInsnDefault"

\* the classes of a record that writes memory and of one that only reads it
\* were printed
C23_WrittenAndReadMemoryPrinted ==
  /\ LirReturned
  /\ \E j, k \in 1..(idx - 1) :
       /\ WritesMemory(loaded_defs[j])
       /\ KindPrinted(j) = "kMachineInsnSideEffects"
       /\ _contains_mem(loaded_defs[k])
       /\ KindPrinted(k) = "kMachineInsnDefault"


---------------------------------------------------------------------------
(* The names looked up and the names found.                                *)

\* the bindings of a list of binding files
BindingsIn(files) ==
  UNION {{files[k][j] : j \in {i \in DOMAIN files[k] : Has(files[k][i], "insn")}} :
           k \in DOMAIN files}

\* the allowlisted names: the names of the allowlist files and the
\* instructions of the bindings that are not interpret-only
Allowlisted ==
  UNION {{argv.allowlist_files[k].insns[j] : j \in DOMAIN argv.allowlist_files[k].insns} :
           k \in DOMAIN argv.allowlist_files}
  \cup {b.insn : b \in {c \in BindingsIn(argv.machine_ir_intrinsic_binding_files) :
                          ~(Has(c, "usage") /\ c.usage = "interpret-only")}}

\* the elements of a list that was returned, none when the call raised
ElementsOf(r) == IF r.ok THEN {r.val[i] : i \in DOMAIN r.val} ELSE {}

\* _expand_mem_insns applied to what load_asm_defs returned
MemInsnsOf(r) == IF r.ok THEN _expand_mem_insns(r.val.insns) ELSE Raise

\* the instructions of a definition file, one per addressing mode for a
\* record with a memory operand
LirInsnsOf(file) == ElementsOf(MemInsnsOf(load_asm_defs(file)))

DefinedInsns == UNION {LirInsnsOf(argv.files[k]) : k \in DOMAIN argv.files}

HasName(insn, name) ==
  insn.name = name \/ (Has(insn, "mem_group_name") /\ insn.mem_group_name = name)

\* the name an instruction is looked up by: the name of its group when it
\* has one, its own name otherwise
LookupName(insn) == IF Has(insn, "mem_group_name") THEN insn.mem_group_name ELSE insn.name

\* the records load_asm_defs returned
InsnsOf(r) == IF r.ok THEN Ok(r.val.insns) ELSE Raise

\* the names of a set of records
NamesOf(records) == {insn.name : insn \in records}

\* the names of the instructions of the macro definition files
MacroNames ==
  UNION {NamesOf(ElementsOf(InsnsOf(load_asm_defs(argv.files[k])))) : k \in DOMAIN argv.files}

LirCalled == argv.mode = "--headers"
LirAborted == LirCalled /\ pc = "aborted" /\ ~fs[1].opened
IntrCalled == argv.mode = "--make_intrinsics_cc"
IntrReturned == IntrCalled /\ pc = "intr_returned"
IntrAborted == IntrCalled /\ pc = "aborted"

\* the records returned
Returned == {loaded_defs[i] : i \in DOMAIN loaded_defs}

\* some name has the name or the mem_group_name of no instruction
SomeNameMissing(names, defined) ==
  \E name \in names : \A insn \in defined : ~HasName(insn, name)

\* some binding names no instruction
SomeBindingMissing(bindings, names) == \E b \in bindings : b.insn \notin names

\* C27 as stated: load_all_lir_defs aborts exactly when some allowlisted
\* name is the name or mem_group_name of no instruction of any definition
\* file, _open_asm_def_files aborts exactly when some binding names an
\* instruction of no macro definition file, and the LIR instructions
\* returned are exactly those whose name or mem_group_name is allowlisted.
C27_AbortsExactlyWhenNameMissing ==
  /\ LirAborted => SomeNameMissing(Allowlisted, DefinedInsns)
  /\ LirReturned => ~SomeNameMissing(Allowlisted, DefinedInsns)
  /\ IntrAborted => SomeBindingMissing(BindingsIn(argv.arch_def_files), MacroNames)
  /\ IntrReturned => ~SomeBindingMissing(BindingsIn(argv.arch_def_files), MacroNames)
  /\ LirReturned =>
       \E names \in {Allowlisted} :
         Returned = {insn \in DefinedInsns : \E name \in names : HasName(insn, name)}

\* load_all_lir_defs has read the allowlists and every definition file, and
\* every record it kept passes _check_insn_defs: it is at, or past, its last
\* assertion
LirLookupChecked ==
  /\ LirCalled
  /\ allowlist_looked.ok
  /\ pc \in {"aborted", "lir_gen", "done"}
  /\ pair > Len(argv.files)
  /\ \A i \in DOMAIN insns : _check_insn_defs(insns[i])

\* _open_asm_def_files has read the bindings and processed every macro
\* definition file
IntrLookupChecked ==
  /\ IntrCalled
  /\ _load_intrs_arch_def(argv.arch_def_files).ok
  /\ pc \in {"aborted", "intr_returned"}
  /\ pair > Len(argv.files)

\* some name is the lookup name of no instruction
SomeLookupNameMissing(names, defined) ==
  \E name \in names : \A insn \in defined : LookupName(insn) # name

\* C27: an instruction is looked up by the name of its group when it has
\* one and by its own name otherwise.  Once the allowlists and every
\* definition file are read and every kept record passes the check,
\* load_all_lir_defs aborts exactly when some allowlisted name is the lookup
\* name of no instruction; once the bindings are read and every macro
\* definition file is processed, _open_asm_def_files aborts exactly when some
\* binding names an instruction of no macro definition file; neither
\* returns before that; and the LIR instructions returned are
\* exactly those whose lookup name is allowlisted and which the definition
\* file does not mark skip_lir.
C27_AbortsWhenLookupNameMissing ==
  /\ LirLookupChecked =>
       (pc = "aborted" <=> SomeLookupNameMissing(Allowlisted, DefinedInsns))
  /\ LirReturned => LirLookupChecked
  /\ IntrLookupChecked =>
       (pc = "aborted" <=> SomeBindingMissing(BindingsIn(argv.arch_def_files), MacroNames))
  /\ IntrReturned => IntrLookupChecked
  /\ LirReturned =>
       \E names \in {Allowlisted} :
         Returned = {insn \in DefinedInsns :
                       /\ LookupName(insn) \in names
                       /\ ~(Has(insn, "skip_lir") /\ insn.skip_lir)}

\* the allowlist names a record with a memory operand by its own name, not
\* by the name of its group, and load_all_lir_defs aborts
C27_NameOfMemoryRecordNotFound ==
  /\ LirLookupChecked
  /\ pc = "aborted"
  /\ \E name \in Allowlisted :
       /\ ~SomeLookupNameMissing(Allowlisted \ {name}, DefinedInsns)
       /\ SomeLookupNameMissing({name}, DefinedInsns)
       /\ name \in NamesOf(DefinedInsns)

====
